---- MODULE Spec2Model ----
(***************************************************************************)
(* A model of the boiler tracker's frame analysis engine                    *)
(* (src/lib/analyze.py) and of the code around it.                          *)
(***************************************************************************)
EXTENDS Integers, Sequences, FiniteSets, TLC

(***************************************************************************)
(* IEEE-754 binary64 arithmetic, as far as is_percentage_reached needs it.  *)
(* Python evaluates  count > (total * (percentage / 100))  with             *)
(* `percentage / 100` a correctly rounded float quotient and `total * q` a  *)
(* correctly rounded float product.  A float is modelled as a record        *)
(* [m, e]: m the significand as a sequence of bits, most significant first  *)
(* (no leading zero, at most MantissaBits long, <<>> for zero), and e the   *)
(* binary exponent of the last bit of m.                                    *)
(***************************************************************************)
MantissaBits == 53

\* Number of fraction bits produced by the long division before rounding.
QuotientBits == 64

\* Width of the limbs the product is computed in.
LimbBits == 15

\* Number of bits of the natural n (n < 2^30).
BitLength(n) == CHOOSE l \in 0..30 : n < 2^l /\ (l = 0 \/ n >= 2^(l - 1))

\* The low `width` bits of the natural n, most significant first.
FixedBits(n, width) == [i \in 1..width |-> (n \div 2^(width - i)) % 2]

IntToBits(n) == FixedBits(n, BitLength(n))

RECURSIVE BitsToInt(_)
BitsToInt(bits) ==
    IF Len(bits) = 0 THEN 0
    ELSE IF Len(bits) = 1 THEN bits[1]
    ELSE LET h == Len(bits) \div 2
         IN  BitsToInt(SubSeq(bits, 1, h)) * 2^(Len(bits) - h)
               + BitsToInt(SubSeq(bits, h + 1, Len(bits)))

AnyOne(bits) == \E i \in 1..Len(bits) : bits[i] = 1

StripZeros(bits) ==
    IF ~AnyOne(bits) THEN <<>>
    ELSE LET first == CHOOSE i \in 1..Len(bits) :
                          bits[i] = 1 /\ \A j \in 1..(i - 1) : bits[j] = 0
         IN  SubSeq(bits, first, Len(bits))

\* bits + 1, as a bit sequence (one longer when every bit was 1).
Increment(bits) ==
    IF \A i \in 1..Len(bits) : bits[i] = 1
    THEN <<1>> \o [i \in 1..Len(bits) |-> 0]
    ELSE LET last == CHOOSE i \in 1..Len(bits) :
                         bits[i] = 0 /\ \A j \in (i + 1)..Len(bits) : bits[j] = 1
         IN  [i \in 1..Len(bits) |->
                IF i < last THEN bits[i] ELSE IF i = last THEN 1 ELSE 0]

\* Round the exact value  int(bits) * 2^e  (plus a positive remainder below
\* one unit of the last bit when sticky) to nearest, ties to even.
RoundToFloat(bits, e, sticky) ==
    LET b == StripZeros(bits)
        n == Len(b)
    IN  IF n <= MantissaBits
        THEN [m |-> b, e |-> e]
        ELSE LET kept  == SubSeq(b, 1, MantissaBits)
                 round == b[MantissaBits + 1]
                 rest  == sticky \/ AnyOne(SubSeq(b, MantissaBits + 2, n))
                 up    == round = 1 /\ (rest \/ kept[MantissaBits] = 1)
                 m1    == IF up THEN Increment(kept) ELSE kept
                 e1    == e + (n - MantissaBits)
             IN  IF Len(m1) > MantissaBits
                 THEN [m |-> SubSeq(m1, 1, MantissaBits), e |-> e1 + 1]
                 ELSE [m |-> m1, e |-> e1]

\* 2^k modulo d, by repeated squaring (d < 2^15).
RECURSIVE PowerOfTwoMod(_, _)
PowerOfTwoMod(k, d) ==
    IF k = 0 THEN 1 % d
    ELSE IF k % 2 = 0
         THEN LET h == PowerOfTwoMod(k \div 2, d) IN (h * h) % d
         ELSE (2 * PowerOfTwoMod(k - 1, d)) % d

\* The first n bits of the binary expansion of r / d (r < d < 2^15): the
\* k-th is set iff twice the remainder left after k - 1 bits reaches d.
DivBits(r, d, n) ==
    [k \in 1..n |-> IF 2 * ((r * PowerOfTwoMod(k - 1, d)) % d) >= d THEN 1 ELSE 0]

\* The float a / b of two naturals (0 < b < 2^15), correctly rounded.
FloatDiv(a, b) ==
    RoundToFloat(IntToBits(a \div b) \o DivBits(a % b, b, QuotientBits),
                 0 - QuotientBits,
                 ((a % b) * PowerOfTwoMod(QuotientBits, b)) % b # 0)

\* bits * k for a natural k < 2^15 and at most 4 limbs of bits, computed
\* limb by limb from the least significant one.
MulBits(bits, k) ==
    LET B    == 2^LimbBits
        pad  == [i \in 1..(4 * LimbBits - Len(bits)) |-> 0] \o bits
        limb(j) == BitsToInt(SubSeq(pad, (4 - j) * LimbBits - LimbBits + 1,
                                         (4 - j) * LimbBits))
        p0 == limb(0) * k
        p1 == limb(1) * k + p0 \div B
        p2 == limb(2) * k + p1 \div B
        p3 == limb(3) * k + p2 \div B
    IN  IntToBits(p3 \div B) \o FixedBits(p3 % B, LimbBits)
          \o FixedBits(p2 % B, LimbBits) \o FixedBits(p1 % B, LimbBits)
          \o FixedBits(p0 % B, LimbBits)

\* The float k * x of a natural k and a float x, correctly rounded.
FloatMulInt(k, x) == RoundToFloat(MulBits(x.m, k), x.e, FALSE)

\* The integer part of a non-negative float below 2^31.
FloatFloor(x) ==
    LET keep == Len(x.m) + x.e
    IN  IF keep <= 0 THEN 0
        ELSE IF x.e <= 0 THEN BitsToInt(SubSeq(x.m, 1, keep))
        ELSE BitsToInt(x.m \o [i \in 1..x.e |-> 0])

\* count > x for an integer count and a non-negative float x: an integer
\* exceeds x exactly when it exceeds the integer part of x.
IntGreaterThanFloat(count, x) == count > FloatFloor(x)

(***************************************************************************)
(* src/lib/analyze.py: the Pixel Classifier.                                *)
(***************************************************************************)
is_percentage_reached(total, count, percentage) ==
    IntGreaterThanFloat(count, FloatMulInt(total, FloatDiv(percentage, 100)))

(***************************************************************************)
(* src/lib/analyze.py: configuration.                                       *)
(***************************************************************************)
NUMBER_OF_FRAMES == 30

GENERAL_LIGHT_ROI == <<425, 115, 460, 275>>
GENERAL_LIGHT_BRIGHTNESS_THRESHOLD == 100

IS_PRESSED_ROI == <<240, 165, 270, 190>>
PRESSED_REQUIRED_PERCENTAGE_GREEN == 25

LIGHT_ROIS ==
    << << <<110, 122, 128, 226>>, <<128, 122, 164, 151>> >>,
       << <<183, 139, 221, 168>>, <<207, 168, 230, 216>> >>,
       << <<221, 245, 236, 296>>, <<174, 306, 237, 328>> >>,
       << <<113, 230, 142, 335>>, <<142, 314, 173, 330>> >> >>
LIGHT_REQUIRED_PERCENTAGE_GREEN == 50

PRESSED_LOWER_GREEN == <<45, 50, 45>>
PRESSED_UPPER_GREEN == <<95, 255, 255>>
LIGHT_LOWER_GREEN == <<45, 40, 70>>
LIGHT_UPPER_GREEN == <<95, 255, 255>>
DARK_LOWER_GREEN == <<45, 40, 30>>
DARK_UPPER_GREEN == <<95, 255, 255>>

\* Python's None, as the result of the Light-Count Detector.
None == -1
\* The "ERROR" light_value of a FrameData.
ERROR == -2

(***************************************************************************)
(* A captured frame.  The pixel buffer is abstracted to what the analysis   *)
(* reads of it: its size, the mean gray level of the general-light ROI,     *)
(* and, for the pressed ROI and each sub-ROI of each light, a number n of   *)
(* pixels of one HSV colour `hsv` (the other pixels are black):             *)
(*   [width, height, gray, pressed |-> [hsv, n],                            *)
(*    lights |-> << [hsv, n |-> <<n1, n2>>], ... >>]                          *)
(***************************************************************************)
Min(a, b) == IF a < b THEN a ELSE b
Max(a, b) == IF a > b THEN a ELSE b

\* (x2 - x1) * (y2 - y1)
RoiSize(roi) == (roi[3] - roi[1]) * (roi[4] - roi[2])

\* Number of pixels of frame[y1:y2, x1:x2]: numpy clips a slice to the array.
SliceSize(frame, roi) ==
    Max(0, Min(roi[3], frame.width) - roi[1])
      * Max(0, Min(roi[4], frame.height) - roi[2])

\* cv2.inRange on one pixel: every channel within [lower, upper].
InRange(hsv, lower, upper) ==
    \A c \in 1..3 : lower[c] <= hsv[c] /\ hsv[c] <= upper[c]

\* cv2.countNonZero(cv2.inRange(roi, lower, upper)) for a region holding n
\* pixels of colour hsv on black.
CountInRange(frame, roi, paint, n, lower, upper) ==
    IF InRange(paint, lower, upper) THEN Min(n, SliceSize(frame, roi)) ELSE 0

determine_general_light(frame) ==
    frame.gray > GENERAL_LIGHT_BRIGHTNESS_THRESHOLD

determine_pressed_state(frame) ==
    is_percentage_reached(
        RoiSize(IS_PRESSED_ROI),
        CountInRange(frame, IS_PRESSED_ROI, frame.pressed.hsv, frame.pressed.n,
                     PRESSED_LOWER_GREEN, PRESSED_UPPER_GREEN),
        PRESSED_REQUIRED_PERCENTAGE_GREEN)

\* Whether the slice of a sub-ROI of light i is empty (roi_hsv.size == 0).
RoiEmpty(frame, i, j) == SliceSize(frame, LIGHT_ROIS[i][j]) = 0

\* total_pixels and green_pixels of light i (1-based) after its ROI loop.
TotalPixels(i) == RoiSize(LIGHT_ROIS[i][1]) + RoiSize(LIGHT_ROIS[i][2])

GreenPixels(frame, i, lower, upper) ==
    CountInRange(frame, LIGHT_ROIS[i][1], frame.lights[i].hsv,
                 frame.lights[i].n[1], lower, upper)
      + CountInRange(frame, LIGHT_ROIS[i][2], frame.lights[i].hsv,
                     frame.lights[i].n[2], lower, upper)

LightIsOnAtHalf(frame, i, lower, upper) ==
    2 * GreenPixels(frame, i, lower, upper) >= TotalPixels(i)

\* light_is_on of light i.
LightIsOn(frame, i, lower, upper) ==
    is_percentage_reached(TotalPixels(i), GreenPixels(frame, i, lower, upper),
                          LIGHT_REQUIRED_PERCENTAGE_GREEN)

GapIgnored(lights_on, light_index) == FALSE

\* if lights_on != light_index
Gap(lights_on, light_index) == lights_on # light_index

\* The loop of determine_number_of_lights_in_frame from light i on (1-based;
\* light_index = i - 1), with lights_on the count so far.
RECURSIVE LightsFrom(_, _, _, _, _)
LightsFrom(frame, i, lights_on, lower, upper) ==
    IF i > Len(LIGHT_ROIS) THEN lights_on
    ELSE IF RoiEmpty(frame, i, 1) \/ RoiEmpty(frame, i, 2) THEN None
    ELSE IF LightIsOn(frame, i, lower, upper)
         THEN IF Gap(lights_on, i - 1) THEN None
              ELSE LightsFrom(frame, i + 1, i, lower, upper)
         ELSE LightsFrom(frame, i + 1, lights_on, lower, upper)

determine_number_of_lights_in_frame(frame, lower, upper) ==
    LightsFrom(frame, 1, 0, lower, upper)

(***************************************************************************)
(* The frames the camera can deliver.  A frame is named by an id; Frame(k)  *)
(* is its content.  Ids 0..4 show the first k lights lit in a colour every  *)
(* range accepts, in a dark room; GAP_FRAME shows light 2 lit and light 1   *)
(* dark; LIGHT_SCENE and PRESSED_SCENE show a lit room, the latter with the *)
(* button pressed; DIM_FRAME shows light 1 lit in a colour only the DARK   *)
(* range accepts.                                                           *)
(***************************************************************************)
FRAME_WIDTH == 640
FRAME_HEIGHT == 480

BLACK == <<0, 0, 0>>
GREEN == <<60, 200, 200>>
\* A colour only the DARK range accepts (its value is below the others').
DIM_GREEN == <<60, 200, 40>>

GAP_FRAME == 5
LIGHT_SCENE == 6
PRESSED_SCENE == 7
DIM_FRAME == 8
BRIGHT_GRAY == 180

LitFrame(width, height, gray, pressed, paint, lit) ==
    [width   |-> width,
     height  |-> height,
     gray    |-> gray,
     pressed |-> [hsv |-> GREEN,
                  n   |-> IF pressed THEN RoiSize(IS_PRESSED_ROI) ELSE 0],
     lights  |-> [i \in 1..Len(LIGHT_ROIS) |->
                    [hsv |-> paint,
                     n   |-> IF i \in lit
                             THEN <<RoiSize(LIGHT_ROIS[i][1]), RoiSize(LIGHT_ROIS[i][2])>>
                             ELSE <<0, 0>>]]]

Frame(k) ==
    IF k = LIGHT_SCENE
    THEN LitFrame(FRAME_WIDTH, FRAME_HEIGHT, BRIGHT_GRAY, FALSE, GREEN, {})
    ELSE IF k = PRESSED_SCENE
    THEN LitFrame(FRAME_WIDTH, FRAME_HEIGHT, BRIGHT_GRAY, TRUE, GREEN, {})
    ELSE IF k = DIM_FRAME
    THEN LitFrame(FRAME_WIDTH, FRAME_HEIGHT, 0, FALSE, DIM_GREEN, {1})
    ELSE LitFrame(FRAME_WIDTH, FRAME_HEIGHT, 0, FALSE, GREEN,
                  IF k = GAP_FRAME THEN {2} ELSE 1..k)

\* Most changes of the picture between consecutive loop frames of a run.
MaxSwitches == 1

LoopFrames == (0..Len(LIGHT_ROIS)) \cup {GAP_FRAME, DIM_FRAME}
InitialFrames == {0, LIGHT_SCENE, PRESSED_SCENE}

CaptureFailedIgnored(ret) == FALSE

\* if not ret
CaptureFailed(ret) == ~ret

\* The three ranges analyze chooses from, as <<lower_green, upper_green>>.
GreenBounds ==
    { <<PRESSED_LOWER_GREEN, PRESSED_UPPER_GREEN>>,
      <<LIGHT_LOWER_GREEN, LIGHT_UPPER_GREEN>>,
      <<DARK_LOWER_GREEN, DARK_UPPER_GREEN>> }

green_bounds_light_first(is_pressed, general) ==
    IF general THEN <<LIGHT_LOWER_GREEN, LIGHT_UPPER_GREEN>>
    ELSE IF is_pressed THEN <<PRESSED_LOWER_GREEN, PRESSED_UPPER_GREEN>>
    ELSE <<DARK_LOWER_GREEN, DARK_UPPER_GREEN>>

\* Lines 208-216: <<lower_green, upper_green>> from the two scene flags.
green_bounds(is_pressed, general) ==
    IF is_pressed THEN <<PRESSED_LOWER_GREEN, PRESSED_UPPER_GREEN>>
    ELSE IF general THEN <<LIGHT_LOWER_GREEN, LIGHT_UPPER_GREEN>>
    ELSE <<DARK_LOWER_GREEN, DARK_UPPER_GREEN>>

\* determine_number_of_lights_in_frame on every frame the camera can deliver
\* under every range, computed once.
LightsInFrame ==
    [k \in LoopFrames |->
        [b \in GreenBounds |->
            determine_number_of_lights_in_frame(Frame(k), b[1], b[2])]]

\* NUMBER_OF_FRAMES / 4, the float both gates compare with.
QuarterOfFrames == FloatDiv(NUMBER_OF_FRAMES, 4)

(***************************************************************************)
(* src/lib/analyze.py: analyze(cap), the Multi-Frame Sampler & Voter.       *)
(***************************************************************************)
VARIABLES
    pc,                       \* where analyze is: "idle", "initial", "loop", "resolve", "done"
    general_light_on,
    lower_green,
    upper_green,
    frame_index,
    determined_light_values,  \* dropped when a capture fails: no vote follows
    failed_frames,
    stored_frames,            \* FrameData: [original_frame, light_value]; dropped likewise
    result,                   \* <<>> for None, <<status>> for a BoilerStatus
    last_ret,                 \* ret of the latest cap.read()
    reads,                    \* cap.read() calls of this run
    error_images,             \* the frame indexes whose frame cv2.imwrite wrote
    sleeps,                   \* the frame indexes after which the run slept
    initial_frame,            \* the frame of the initial capture (None: none yet)
    captured                  \* the frames the loop's cap.read() delivered; dropped
                              \* with the lists when a capture fails

analyze_vars ==
    <<pc, general_light_on, lower_green, upper_green, frame_index,
      determined_light_values, failed_frames, stored_frames, result,
      last_ret, reads, error_images, sleeps, initial_frame, captured>>

\* Number of places where consecutive frames differ.
Switches(frames) ==
    Cardinality({i \in 1..(Len(frames) - 1) : frames[i] # frames[i + 1]})

\* What the camera may deliver next: any frame, while the picture has
\* changed fewer than MaxSwitches times, and the same picture again after.
CameraShows ==
    IF captured = <<>> THEN LoopFrames
    ELSE IF Switches(captured) < MaxSwitches THEN LoopFrames
    ELSE {captured[Len(captured)]}

\* FrameData(original_frame=..., light_value=...); the annotated copy is
\* the original with the value drawn on it.
FrameData(original_frame, light_value) ==
    [original_frame |-> original_frame, light_value |-> light_value]

StoreErrorFrameSkipped(frames, frame) == frames

\* stored_frames.append(FrameData(..., light_value="ERROR"))
StoreErrorFrame(frames, frame) == Append(frames, FrameData(frame, ERROR))

\* stored_frames.append(FrameData(..., light_value=lights_on))
StoreFrame(frames, frame, lights_on) == Append(frames, FrameData(frame, lights_on))

ErrorImageNotWritten(images, index) == images

\* cv2.imwrite(generate_error_image_path(), frame) for the frame of an iteration
WriteErrorImage(images, index) == images \cup {index}

(* collections.Counter(values): the keys in order of first occurrence. *)
CounterKeys(values) == {values[i] : i \in 1..Len(values)}
CounterCount(values, v) == Cardinality({i \in 1..Len(values) : values[i] = v})
FirstIndex(values, v) ==
    CHOOSE i \in 1..Len(values) :
        values[i] = v /\ \A j \in 1..(i - 1) : values[j] # v
CounterItems(values) ==
    LET keys == CounterKeys(values)
    IN  [n \in 1..Cardinality(keys) |->
            LET v == CHOOSE v \in keys :
                        Cardinality({u \in keys :
                            FirstIndex(values, u) < FirstIndex(values, v)}) = n - 1
            IN  <<v, CounterCount(values, v)>>]

\* Whether item a comes before item b in most_common(): by count, largest
\* first, and by position in the Counter among equal counts.
Before(items, a, b) ==
    \/ items[a][2] > items[b][2]
    \/ items[a][2] = items[b][2] /\ a < b

most_common_unsorted(values, n) ==
    LET items == CounterItems(values)
    IN  [r \in 1..Min(n, Len(items)) |-> items[r]]

\* Counter.most_common(n)
most_common(values, n) ==
    LET items == CounterItems(values)
        rank(a) == Cardinality({b \in 1..Len(items) : Before(items, b, a)})
    IN  [r \in 1..Min(n, Len(items)) |->
            items[CHOOSE a \in 1..Len(items) : rank(a) = r - 1]]

frequency_frames_by_rank(values, frames) ==
    LET items == most_common(values, Len(values))
    IN  [n \in 1..Len(items) |->
            LET first == CHOOSE i \in 1..Len(frames) :
                            /\ frames[i].light_value = items[n][1]
                            /\ \A j \in 1..(i - 1) : frames[j].light_value # items[n][1]
            IN  [original_frame |-> frames[first].original_frame,
                 light_value    |-> items[n][1],
                 count          |-> items[n][2]]]

\* The first stored frame with the given light value, annotated with its count.
frequency_frames_of(values, frames) ==
    LET items == CounterItems(values)
    IN  [n \in 1..Len(items) |->
            LET first == CHOOSE i \in 1..Len(frames) :
                            /\ frames[i].light_value = items[n][1]
                            /\ \A j \in 1..(i - 1) : frames[j].light_value # items[n][1]
            IN  [original_frame |-> frames[first].original_frame,
                 light_value    |-> items[n][1],
                 count          |-> items[n][2]]]

TooManyFailedHalf(failed) ==
    IntGreaterThanFloat(failed, FloatDiv(NUMBER_OF_FRAMES, 2))

TooManyFailedThird(failed) ==
    IntGreaterThanFloat(failed, FloatDiv(NUMBER_OF_FRAMES, 3))

\* failed_frames > (NUMBER_OF_FRAMES / 4)
TooManyFailed(failed) ==
    IntGreaterThanFloat(failed, QuarterOfFrames)

BlinkingHalf(count2) ==
    IntGreaterThanFloat(count2, FloatDiv(NUMBER_OF_FRAMES, 2))

BlinkingAny(count2) == count2 > 0

\* count2 > (NUMBER_OF_FRAMES / 4)
Blinking(count2) ==
    IntGreaterThanFloat(count2, QuarterOfFrames)

NotAdjacentWide(value1, value2) ==
    ~(value1 = value2 - 2) /\ ~(value1 - 2 = value2)
      /\ ~(value1 = value2 - 1) /\ ~(value1 - 1 = value2)

\* not (value1 == value2 - 1) and not (value1 - 1 == value2)
NotAdjacent(value1, value2) ==
    ~(value1 = value2 - 1) /\ ~(value1 - 1 = value2)

NormalizeNever(lights_on, heating) == lights_on

NormalizeIgnoringHeating(lights_on, heating) ==
    IF lights_on = 1 THEN 0 ELSE lights_on

\* if lights_on == 1 and not heating: lights_on = 0
Normalize(lights_on, heating) ==
    IF lights_on = 1 /\ ~heating THEN 0 ELSE lights_on

BoilerStatusWithoutErrorFrames(heating, lights_on, general, frames, frequency_frames, lower, upper) ==
    [heating          |-> heating,
     lights_on        |-> lights_on,
     general_light_on |-> general,
     frames           |-> SelectSeq(frames, LAMBDA f : f.light_value # ERROR),
     frequency_frames |-> frequency_frames,
     lower_green      |-> lower,
     upper_green      |-> upper]

BoilerStatus(heating, lights_on, general, frames, frequency_frames, lower, upper) ==
    [heating          |-> heating,
     lights_on        |-> lights_on,
     general_light_on |-> general,
     frames           |-> frames,
     frequency_frames |-> frequency_frames,
     lower_green      |-> lower,
     upper_green      |-> upper]

\* Lines 258-318: what analyze returns once the loop has run.
Verdict(values, failed, frames, general, lower, upper) ==
    IF TooManyFailed(failed) THEN <<>>
    ELSE LET top_two_values == most_common(values, 2)
         IN  IF Len(top_two_values) = 0 THEN <<>>
             ELSE IF Len(top_two_values) = 1
             THEN << BoilerStatus(FALSE, Normalize(top_two_values[1][1], FALSE),
                                  general, frames,
                                  frequency_frames_of(values, frames), lower, upper) >>
             ELSE LET value1 == top_two_values[1][1]
                      value2 == top_two_values[2][1]
                      count2 == top_two_values[2][2]
                      lights_on == IF value1 > value2 THEN value1 ELSE value2
                      heating == Blinking(count2)
                  IN  IF heating /\ NotAdjacent(value1, value2) THEN <<>>
                      ELSE << BoilerStatus(heating, Normalize(lights_on, heating),
                                           general, frames,
                                           frequency_frames_of(values, frames),
                                           lower, upper) >>

\* analyze(cap) is called.
AnalyzeCallKeepingFailures ==
    /\ pc \in {"idle", "done"}
    /\ pc' = "initial"
    /\ general_light_on' = FALSE
    /\ lower_green' = <<>>
    /\ upper_green' = <<>>
    /\ frame_index' = 0
    /\ determined_light_values' = <<>>
    /\ failed_frames' = failed_frames
    /\ stored_frames' = <<>>
    /\ result' = <<>>
    /\ last_ret' = TRUE
    /\ reads' = 0
    /\ error_images' = {}
    /\ sleeps' = {}
    /\ initial_frame' = None
    /\ captured' = <<>>

AnalyzeCall ==
    /\ pc \in {"idle", "done"}
    /\ pc' = "initial"
    /\ general_light_on' = FALSE
    /\ lower_green' = <<>>
    /\ upper_green' = <<>>
    /\ frame_index' = 0
    /\ determined_light_values' = <<>>
    /\ failed_frames' = 0
    /\ stored_frames' = <<>>
    /\ result' = <<>>
    /\ last_ret' = TRUE
    /\ reads' = 0
    /\ error_images' = {}
    /\ sleeps' = {}
    /\ initial_frame' = None
    /\ captured' = <<>>

\* Lines 194-221: the initial capture, the scene flags and the range, when
\* cap.read() returns (ret, Frame(k)).
InitialCaptureOf(ret, k) ==
    /\ pc = "initial"
    /\ reads' = reads + 1
    /\ last_ret' = ret
    /\ IF CaptureFailed(ret)
       THEN /\ pc' = "done"
            /\ result' = <<>>
            /\ UNCHANGED <<general_light_on, lower_green, upper_green,
                           initial_frame>>
       ELSE LET is_pressed == determine_pressed_state(Frame(k))
                general == determine_general_light(Frame(k))
            IN  /\ general_light_on' = general
                /\ lower_green' = green_bounds(is_pressed, general)[1]
                /\ upper_green' = green_bounds(is_pressed, general)[2]
                /\ initial_frame' = k
                /\ pc' = "loop"
                /\ result' = result
    /\ UNCHANGED <<frame_index, determined_light_values, failed_frames,
                   stored_frames, error_images, sleeps, captured>>

InitialCapture ==
    \E ret \in BOOLEAN, k \in InitialFrames : InitialCaptureOf(ret, k)

\* Lines 223-256: one iteration of the sampling loop, when cap.read()
\* returns (ret, Frame(k)).
LoopIterationOf(ret, k) ==
    /\ pc = "loop"
    /\ reads' = reads + 1
    /\ last_ret' = ret
    /\ IF CaptureFailed(ret)
       THEN /\ pc' = "done"
            /\ result' = <<>>
            /\ determined_light_values' = <<>>
            /\ stored_frames' = <<>>
            /\ captured' = <<>>
            /\ UNCHANGED <<frame_index, failed_frames, error_images, sleeps>>
       ELSE LET lights_on == LightsInFrame[k][<<lower_green, upper_green>>]
            IN  /\ IF lights_on = None
                   THEN /\ failed_frames' = failed_frames + 1
                        /\ error_images' = WriteErrorImage(error_images, frame_index)
                        /\ stored_frames' = StoreErrorFrame(stored_frames, k)
                        /\ UNCHANGED <<determined_light_values, sleeps>>
                   ELSE /\ determined_light_values' =
                              Append(determined_light_values, lights_on)
                        /\ stored_frames' = StoreFrame(stored_frames, k, lights_on)
                        /\ sleeps' = IF frame_index # NUMBER_OF_FRAMES - 1
                                     THEN sleeps \cup {frame_index} ELSE sleeps
                        /\ UNCHANGED <<failed_frames, error_images>>
                /\ captured' = Append(captured, k)
                /\ frame_index' = frame_index + 1
                /\ pc' = IF frame_index + 1 = NUMBER_OF_FRAMES
                         THEN "resolve" ELSE "loop"
                /\ result' = result
    /\ UNCHANGED <<general_light_on, lower_green, upper_green, initial_frame>>

LoopIteration ==
    \E k \in CameraShows, ret \in BOOLEAN : LoopIterationOf(ret, k)

\* Lines 258-318: the failure gate, the vote and the returned status.
Resolve ==
    /\ pc = "resolve"
    /\ pc' = "done"
    /\ result' = Verdict(determined_light_values, failed_frames, stored_frames,
                         general_light_on, lower_green, upper_green)
    /\ UNCHANGED <<general_light_on, lower_green, upper_green, frame_index,
                   determined_light_values, failed_frames, stored_frames,
                   last_ret, reads, error_images, sleeps, initial_frame,
                   captured>>

(***************************************************************************)
(* The pure functions, called on their own: args holds the arguments of the *)
(* call and returned its result (<<>> before the call returns).             *)
(***************************************************************************)
VARIABLES args, returned

pure_vars == <<args, returned>>

(***************************************************************************)
(* A run of analyze fed the capture results of the run before it: previous  *)
(* holds what cap.read() returned to that run and what the run returned     *)
(* (<<>> while no run is being repeated).                                   *)
(***************************************************************************)
VARIABLES previous

replay_vars == <<previous>>

(***************************************************************************)
(* src/lib/rwlock.py: RWLock, used by MaxThreads threads.  Every method     *)
(* body runs `with self._read_ready`, so under the condition's lock: the    *)
(* steps of a thread are the stretches between taking that lock and giving  *)
(* it up, at the end of the body or inside wait().                          *)
(***************************************************************************)
MaxThreads == 3

Threads == 1..MaxThreads

VARIABLES
    readers,        \* self._readers
    writers,        \* self._writers
    write_waiting,  \* self._write_waiting
    thread          \* where each thread is: "idle", "read_wait" and "write_wait"
                    \* (inside wait()), "read_woken" and "write_woken" (notified,
                    \* about to test the loop condition again), "reading" and
                    \* "writing" (inside a read_lock() or write_lock() block)

lock_vars == <<readers, writers, write_waiting, thread>>

\* RWLock.__init__, no thread using the lock yet.
LockInit ==
    /\ readers = 0
    /\ writers = 0
    /\ write_waiting = 0
    /\ thread = [t \in Threads |-> "idle"]

ReaderMustWaitForReaders(rd, wr, waiting) == wr > 0 \/ waiting > 0 \/ rd > 0

\* while self._writers > 0 or self._write_waiting > 0
ReaderMustWait(rd, wr, waiting) == wr > 0 \/ waiting > 0

WriterMustWaitForWriters(rd, wr) == wr > 0

\* while self._readers > 0 or self._writers > 0
WriterMustWait(rd, wr) == rd > 0 \/ wr > 0

\* self._read_ready.notify_all(): every thread inside wait() is woken.
notify_all(threads) ==
    [t \in Threads |->
        IF threads[t] = "read_wait" THEN "read_woken"
        ELSE IF threads[t] = "write_wait" THEN "write_woken"
        ELSE threads[t]]

\* The loop of _acquire_read, entered at `from` ("idle": the call;
\* "read_woken": the return of wait()).
ReadLoop(t, from) ==
    /\ thread[t] = from
    /\ IF ReaderMustWait(readers, writers, write_waiting)
       THEN /\ thread' = [thread EXCEPT ![t] = "read_wait"]
            /\ UNCHANGED readers
       ELSE /\ readers' = readers + 1
            /\ thread' = [thread EXCEPT ![t] = "reading"]
    /\ UNCHANGED <<writers, write_waiting>>

\* _acquire_read, up to its return or its first wait().
AcquireRead(t) == ReadLoop(t, "idle")

\* _acquire_read, from the return of wait() on.
WakeReader(t) == ReadLoop(t, "read_woken")

\* _release_read
ReleaseRead(t) ==
    /\ thread[t] = "reading"
    /\ readers' = readers - 1
    /\ thread' = IF readers - 1 = 0
                 THEN notify_all([thread EXCEPT ![t] = "idle"])
                 ELSE [thread EXCEPT ![t] = "idle"]
    /\ UNCHANGED <<writers, write_waiting>>

\* The loop of _acquire_write and what follows it, with `waiting` the value
\* of self._write_waiting on entry.
WriteLoop(t, waiting) ==
    IF WriterMustWait(readers, writers)
    THEN /\ write_waiting' = waiting
         /\ thread' = [thread EXCEPT ![t] = "write_wait"]
         /\ UNCHANGED writers
    ELSE /\ write_waiting' = waiting - 1
         /\ writers' = writers + 1
         /\ thread' = [thread EXCEPT ![t] = "writing"]

\* _acquire_write, up to its return or its first wait().
AcquireWrite(t) ==
    /\ thread[t] = "idle"
    /\ WriteLoop(t, write_waiting + 1)
    /\ UNCHANGED readers

\* _acquire_write, from the return of wait() on.
WakeWriter(t) ==
    /\ thread[t] = "write_woken"
    /\ WriteLoop(t, write_waiting)
    /\ UNCHANGED readers

\* _release_write
ReleaseWrite(t) ==
    /\ thread[t] = "writing"
    /\ writers' = writers - 1
    /\ thread' = notify_all([thread EXCEPT ![t] = "idle"])
    /\ UNCHANGED <<readers, write_waiting>>

(***************************************************************************)
(* src/lib/errors.py: the cleanup thread of the error image folder.  A     *)
(* file name is what split('-') makes of it: <<"error", stem>> is           *)
(* error-<stem>.jpg, <<"frame">> a file the glob error-*.jpg does not       *)
(* match.  A stem is the number float() reads from it, or NotANumber.       *)
(***************************************************************************)
\* Largest timestamp in a file name, and largest size of a file.
MaxStamp == 3

MaxFileSize == 2

\* max_size_bytes (ERROR_IMAGE_DIR_MAX_SIZE_MB, scaled to the file sizes).
max_size_bytes == 3

NotANumber == -3

Stems == (0..MaxStamp) \cup {NotANumber}

FileNames == {<<"error", s>> : s \in Stems} \cup {<<"frame">>}

VARIABLES
    \* The files of the folder: name |-> size.
    folder,
    \* Where run_cleanup is: "idle", "deleting" (the for loop), "waiting".
    cleanup_pc,
    current_size,
    files_to_delete,
    size_after_deletion,
    \* The files unlinked in this pass (one per "Deleted oldest file" line),
    \* and the names whose unlink raised.
    deleted,
    unlink_failed

cleanup_vars == <<folder, cleanup_pc, current_size, files_to_delete,
                  size_after_deletion, deleted, unlink_failed>>

RECURSIVE SumSizes(_, _)
SumSizes(files, names) ==
    IF names = {} THEN 0
    ELSE LET n == CHOOSE x \in names : TRUE
         IN  files[n] + SumSizes(files, names \ {n})

get_folder_size(files) == SumSizes(files, DOMAIN files)

\* float(filename.split('-')[1].rsplit('.jpg', 1)[0]), None on IndexError
\* or ValueError.
parse_timestamp_from_filename(filename) ==
    IF Len(filename) < 2 THEN None
    ELSE IF filename[2] = NotANumber THEN None
    ELSE filename[2]

MatchesGlob(filename) == filename[1] = "error" /\ Len(filename) >= 2

\* Lines 71-76: the files cleanup may delete.
Candidates(files) ==
    {n \in DOMAIN files :
        /\ MatchesGlob(n)
        /\ parse_timestamp_from_filename(n) # None
        /\ parse_timestamp_from_filename(n) > 0}

FileInfo(files, n) ==
    [path |-> n, timestamp |-> parse_timestamp_from_filename(n), size |-> files[n]]

RECURSIVE NewestFirst(_, _)
RECURSIVE SortByTimestamp(_, _)
NewestFirst(files, names) ==
    IF names = {} THEN <<>>
    ELSE LET n == CHOOSE x \in names : \A y \in names :
                      parse_timestamp_from_filename(x) >= parse_timestamp_from_filename(y)
         IN  <<FileInfo(files, n)>> \o NewestFirst(files, names \ {n})

\* files_to_delete.sort(key=lambda x: x['timestamp'])
SortByTimestamp(files, names) ==
    IF names = {} THEN <<>>
    ELSE LET n == CHOOSE x \in names : \A y \in names :
                      parse_timestamp_from_filename(x) <= parse_timestamp_from_filename(y)
         IN  <<FileInfo(files, n)>> \o SortByTimestamp(files, names \ {n})

Unlink(files, n) == [m \in DOMAIN files \ {n} |-> files[m]]

CleanupInit ==
    /\ folder = <<>>
    /\ cleanup_pc = "idle"
    /\ current_size = 0
    /\ files_to_delete = <<>>
    /\ size_after_deletion = 0
    /\ deleted = <<>>
    /\ unlink_failed = {}

\* Lines 63-83: measure the folder and, when it is too big, list the files.
CleanupMeasure ==
    /\ cleanup_pc = "idle"
    /\ current_size' = get_folder_size(folder)
    /\ deleted' = <<>>
    /\ unlink_failed' = {}
    /\ IF current_size' > max_size_bytes
       THEN /\ files_to_delete' = SortByTimestamp(folder, Candidates(folder))
            /\ size_after_deletion' = current_size'
            /\ cleanup_pc' = "deleting"
       ELSE /\ files_to_delete' = <<>>
            /\ size_after_deletion' = size_after_deletion
            /\ cleanup_pc' = "waiting"
    /\ UNCHANGED folder

\* Lines 84-96: one round of the for loop; unlinked tells whether unlink()
\* returned or raised.
CleanupDeleteOf(unlinked) ==
    /\ cleanup_pc = "deleting"
    /\ files_to_delete # <<>>
    /\ size_after_deletion > max_size_bytes
    /\ LET file_info == Head(files_to_delete)
       IN  IF unlinked
           THEN /\ folder' = Unlink(folder, file_info.path)
                /\ size_after_deletion' = size_after_deletion - file_info.size
                /\ deleted' = Append(deleted, file_info)
                /\ UNCHANGED unlink_failed
           ELSE /\ unlink_failed' = unlink_failed \cup {file_info.path}
                /\ UNCHANGED <<folder, size_after_deletion, deleted>>
    /\ files_to_delete' = Tail(files_to_delete)
    /\ UNCHANGED <<cleanup_pc, current_size>>

CleanupDelete == \E unlinked \in BOOLEAN : CleanupDeleteOf(unlinked)

\* Lines 84-86, 98-101: the loop ends, by break or at the end of the list.
CleanupStop ==
    /\ cleanup_pc = "deleting"
    /\ files_to_delete = <<>> \/ size_after_deletion <= max_size_bytes
    /\ cleanup_pc' = "waiting"
    /\ UNCHANGED <<folder, current_size, files_to_delete, size_after_deletion,
                   deleted, unlink_failed>>

\* Line 107: stop_event.wait(timeout=check_interval), then the next pass.
CleanupWait ==
    /\ cleanup_pc = "waiting"
    /\ cleanup_pc' = "idle"
    /\ UNCHANGED <<folder, current_size, files_to_delete, size_after_deletion,
                   deleted, unlink_failed>>

(***************************************************************************)
(* src/run.py: main_loop and the callbacks the MQTT thread runs.  Each      *)
(* statement of main_loop that reads or writes what the callbacks share     *)
(* (force_check_event, should_publish_force_checked, debug_mode_enabled)    *)
(* is a step of its own, and so is each statement of a callback.            *)
(***************************************************************************)
EXIT == "exit(1)"

bool_to_state(state) == IF state THEN "ON" ELSE "OFF"

lights_to_percentage_up_to_three(lights, heating) ==
    IF lights = 0 THEN "0"
    ELSE IF lights = 1 THEN (IF heating THEN "13" ELSE "25")
    ELSE IF lights = 2 THEN (IF heating THEN "38" ELSE "50")
    ELSE IF lights = 3 THEN (IF heating THEN "63" ELSE "75")
    ELSE EXIT

lights_to_percentage(lights, heating) ==
    IF lights = 0 THEN "0"
    ELSE IF lights = 1 THEN (IF heating THEN "13" ELSE "25")
    ELSE IF lights = 2 THEN (IF heating THEN "38" ELSE "50")
    ELSE IF lights = 3 THEN (IF heating THEN "63" ELSE "75")
    ELSE IF lights = 4 THEN (IF heating THEN "88" ELSE "100")
    ELSE EXIT

\* What main_loop reads of a BoilerStatus.
StatusOf(heating, lights_on, general) ==
    [heating |-> heating, lights_on |-> lights_on, general_light_on |-> general]

\* What analyze(cap) hands to main_loop: None, or one of two statuses.
AnalyzeOutcomes ==
    {<<>>, <<StatusOf(FALSE, 0, FALSE)>>, <<StatusOf(TRUE, 2, TRUE)>>}

Message(topic, payload) == [topic |-> topic, payload |-> payload]

ErrorOnWithHeating(boiler_status) ==
    << Message("heating", "OFF"), Message("error", "ON") >>

\* Line 172: publish(client, ERROR_STATE_TOPIC, bool_to_state(True))
ErrorPublish(boiler_status) == << Message("error", bool_to_state(TRUE)) >>

ImageUrlPublishes == << Message("frames_urls", "urls"),
                        Message("frequency_frames_urls", "urls") >>

StatePublishesErrorFirst(boiler_status) ==
    << Message("error", bool_to_state(FALSE)),
       Message("heating", bool_to_state(boiler_status.heating)),
       Message("general_light", bool_to_state(boiler_status.general_light_on)) >>

\* Lines 202-205, as far as lights_to_percentage returns.
StatePublishes(boiler_status) ==
    LET percentage == lights_to_percentage(boiler_status.lights_on, boiler_status.heating)
        first == << Message("heating", bool_to_state(boiler_status.heating)),
                    Message("general_light", bool_to_state(boiler_status.general_light_on)) >>
    IN  IF percentage = EXIT THEN first
        ELSE first \o << Message("percentage", percentage),
                         Message("error", bool_to_state(FALSE)) >>

status_differs_ignoring_general_light(newest, boiler_status) ==
    \/ newest = <<>>
    \/ newest[1].heating # boiler_status.heating
    \/ newest[1].lights_on # boiler_status.lights_on

\* StatusHistory._status_differs_from_previous, on the newest entry of the
\* history (<<>> while the history is empty).
status_differs_from_previous(newest, boiler_status) ==
    newest = <<>> \/ newest[1] # boiler_status

\* What add_status, and with it update_status, returns: the method ends
\* without a return statement, so None (<<>>) whatever differs is.
add_status_result(differs) == <<>>

\* `if status_changed:`
Truthy(value) == value # <<>> /\ value[1]

WaitsWhenForced(debug, force_pending) == debug /\ force_pending

\* Line 134: debug_mode_enabled and not should_publish_force_checked
WaitsForForce(debug, force_pending) == debug /\ ~force_pending

ReleaseSkipped(open) == open

\* cap.release()
Release(open) == open - 1

VARIABLES
    \* Where main_loop is.
    main_pc,
    \* client.is_connected()
    connected,
    debug_mode_enabled,
    should_publish_force_checked,
    \* force_check_event.is_set()
    force_check_event,
    \* Where the MQTT thread is: "idle", or inside a callback before its
    \* force_check_event.set().
    mqtt_pc,
    \* The VideoCapture handles that are open.
    cameras_open,
    \* main_loop's status: <<>> for None.
    status,
    \* status_history.last, as far as main_loop's steps depend on it; the
    \* newest entry of status_history.history has the same three fields.
    history_last,
    \* status_history.last as it was before the latest update_status.
    preceding,
    \* The messages published in this iteration of the loop, in order.
    outbox,
    \* A force check was requested and no last-force-check publish followed.
    unacknowledged,
    \* A force check was requested after analyze last returned.
    requested_since_run,
    \* main_loop has waited on force_check_event since analyze last returned.
    waited

main_vars == <<main_pc, connected, debug_mode_enabled, should_publish_force_checked,
               force_check_event, mqtt_pc, cameras_open, status, history_last, preceding,
               outbox, unacknowledged, requested_since_run, waited>>

loop_locals == <<cameras_open, status, history_last, preceding, outbox>>

MainInit ==
    /\ main_pc = "top"
    /\ connected = TRUE
    /\ debug_mode_enabled = FALSE
    /\ should_publish_force_checked = FALSE
    /\ force_check_event = FALSE
    /\ mqtt_pc = "idle"
    /\ cameras_open = 0
    /\ status = <<>>
    /\ history_last = <<>>
    /\ preceding = <<>>
    /\ outbox = <<>>
    /\ unacknowledged = FALSE
    /\ requested_since_run = FALSE
    /\ waited = TRUE

\* Lines 126-128: a new iteration.
MainTop ==
    /\ main_pc = "top"
    /\ outbox' = <<>>
    /\ main_pc' = IF connected THEN "gate" ELSE "sleep"
    /\ UNCHANGED <<connected, debug_mode_enabled, should_publish_force_checked,
                   force_check_event, mqtt_pc, cameras_open, status, history_last,
                   preceding, unacknowledged, requested_since_run, waited>>

\* Lines 130-131 and 166-167: time.sleep(5); continue
MainSleep ==
    /\ main_pc = "sleep"
    /\ main_pc' = "top"
    /\ UNCHANGED <<connected, debug_mode_enabled, should_publish_force_checked,
                   force_check_event, mqtt_pc, loop_locals, unacknowledged,
                   requested_since_run, waited>>

\* Line 134: if debug_mode_enabled and not should_publish_force_checked
MainGate ==
    /\ main_pc = "gate"
    /\ main_pc' = IF WaitsForForce(debug_mode_enabled, should_publish_force_checked)
                  THEN "wait_event" ELSE "open_camera"
    /\ UNCHANGED <<connected, debug_mode_enabled, should_publish_force_checked,
                   force_check_event, mqtt_pc, loop_locals, unacknowledged,
                   requested_since_run, waited>>

\* Line 137: force_check_event.wait() returns once the event is set.
MainWaitEvent ==
    /\ main_pc = "wait_event"
    /\ force_check_event
    /\ main_pc' = "clear_event"
    /\ waited' = TRUE
    /\ UNCHANGED <<connected, debug_mode_enabled, should_publish_force_checked,
                   force_check_event, mqtt_pc, loop_locals, unacknowledged,
                   requested_since_run>>

\* Line 140: force_check_event.clear()
MainClearEvent ==
    /\ main_pc = "clear_event"
    /\ force_check_event' = FALSE
    /\ main_pc' = "check_woken"
    /\ UNCHANGED <<connected, debug_mode_enabled, should_publish_force_checked,
                   mqtt_pc, loop_locals, unacknowledged, requested_since_run,
                   waited>>

\* Lines 142-143: if not should_publish_force_checked: continue
MainCheckWoken ==
    /\ main_pc = "check_woken"
    /\ main_pc' = IF ~should_publish_force_checked THEN "top" ELSE "open_camera"
    /\ UNCHANGED <<connected, debug_mode_enabled, should_publish_force_checked,
                   force_check_event, mqtt_pc, loop_locals, unacknowledged,
                   requested_since_run, waited>>

\* Lines 147-150: cap = start_webcam(); a camera that does not open, or
\* delivers no frame, ends main_loop.
MainOpenCameraOf(opened) ==
    /\ main_pc = "open_camera"
    /\ IF opened
       THEN /\ cameras_open' = cameras_open + 1
            /\ main_pc' = "analyze"
       ELSE /\ cameras_open' = cameras_open
            /\ main_pc' = "returned"
    /\ UNCHANGED <<connected, debug_mode_enabled, should_publish_force_checked,
                   force_check_event, mqtt_pc, status, history_last, preceding, outbox,
                   unacknowledged, requested_since_run, waited>>

MainOpenCamera == \E opened \in BOOLEAN : MainOpenCameraOf(opened)

\* Line 153: status = analyze(cap)
MainAnalyzeOf(outcome) ==
    /\ main_pc = "analyze"
    /\ status' = outcome
    /\ waited' = FALSE
    /\ requested_since_run' = FALSE
    /\ main_pc' = "release"
    /\ UNCHANGED <<connected, debug_mode_enabled, should_publish_force_checked,
                   force_check_event, mqtt_pc, cameras_open, history_last, preceding,
                   outbox, unacknowledged>>

MainAnalyze == \E outcome \in AnalyzeOutcomes : MainAnalyzeOf(outcome)

\* Line 161: cap.release()
MainRelease ==
    /\ main_pc = "release"
    /\ cameras_open' = Release(cameras_open)
    /\ main_pc' = "check_connected"
    /\ UNCHANGED <<connected, debug_mode_enabled, should_publish_force_checked,
                   force_check_event, mqtt_pc, status, history_last, preceding, outbox,
                   unacknowledged, requested_since_run, waited>>

\* Line 164: if not client.is_connected()
MainCheckConnected ==
    /\ main_pc = "check_connected"
    /\ main_pc' = IF ~connected THEN "sleep" ELSE "check_status"
    /\ UNCHANGED <<connected, debug_mode_enabled, should_publish_force_checked,
                   force_check_event, mqtt_pc, loop_locals, unacknowledged,
                   requested_since_run, waited>>

\* Lines 170-173: if status is None: publish the error; continue
MainCheckStatus ==
    /\ main_pc = "check_status"
    /\ IF status = <<>>
       THEN /\ outbox' = outbox \o ErrorPublish(status)
            /\ main_pc' = "top"
       ELSE /\ outbox' = outbox
            /\ main_pc' = "clear_busy"
    /\ UNCHANGED <<connected, debug_mode_enabled, should_publish_force_checked,
                   force_check_event, mqtt_pc, cameras_open, status, history_last,
                   preceding, unacknowledged, requested_since_run, waited>>

\* Line 176: force_check_event.clear()
MainClearBusy ==
    /\ main_pc = "clear_busy"
    /\ force_check_event' = FALSE
    /\ main_pc' = "update_status"
    /\ UNCHANGED <<connected, debug_mode_enabled, should_publish_force_checked,
                   mqtt_pc, loop_locals, unacknowledged, requested_since_run,
                   waited>>

\* Lines 180-195: update_status (http_server.py 463-482, history.py 53-78),
\* the image URLs, and `if status_changed: continue`.
MainUpdateStatus ==
    /\ main_pc = "update_status"
    /\ LET status_changed ==
               add_status_result(status_differs_from_previous(history_last, status[1]))
       IN  main_pc' = IF Truthy(status_changed) THEN "top" ELSE "publish_state"
    /\ preceding' = history_last
    /\ history_last' = status
    /\ outbox' = outbox \o ImageUrlPublishes
    /\ UNCHANGED <<connected, debug_mode_enabled, should_publish_force_checked,
                   force_check_event, mqtt_pc, cameras_open, status,
                   unacknowledged, requested_since_run, waited>>

\* Lines 202-205: the state topics; exit(1) inside lights_to_percentage ends
\* the process.
MainPublishState ==
    /\ main_pc = "publish_state"
    /\ outbox' = outbox \o StatePublishes(status[1])
    /\ main_pc' = IF lights_to_percentage(status[1].lights_on, status[1].heating) = EXIT
                  THEN "exited" ELSE "check_force"
    /\ UNCHANGED <<connected, debug_mode_enabled, should_publish_force_checked,
                   force_check_event, mqtt_pc, cameras_open, status, history_last,
                   preceding, unacknowledged, requested_since_run, waited>>

\* Line 208: if should_publish_force_checked
MainCheckForce ==
    /\ main_pc = "check_force"
    /\ main_pc' = IF should_publish_force_checked THEN "publish_force"
                  ELSE "wait_interval"
    /\ UNCHANGED <<connected, debug_mode_enabled, should_publish_force_checked,
                   force_check_event, mqtt_pc, loop_locals, unacknowledged,
                   requested_since_run, waited>>

\* Line 209: publish(client, LAST_FORCE_CHECK_TOPIC, now)
MainPublishForce ==
    /\ main_pc = "publish_force"
    /\ outbox' = Append(outbox, Message("last_force_check", "now"))
    /\ unacknowledged' = FALSE
    /\ main_pc' = "reset_force"
    /\ UNCHANGED <<connected, debug_mode_enabled, should_publish_force_checked,
                   force_check_event, mqtt_pc, cameras_open, status, history_last,
                   preceding, requested_since_run, waited>>

\* Line 210: should_publish_force_checked = False
MainResetForce ==
    /\ main_pc = "reset_force"
    /\ should_publish_force_checked' = FALSE
    /\ main_pc' = "wait_interval"
    /\ UNCHANGED <<connected, debug_mode_enabled, force_check_event, mqtt_pc,
                   loop_locals, unacknowledged, requested_since_run, waited>>

\* Line 214: force_check_event.wait(timeout=custom_waiting_interval) returns
\* when the event is set or the interval has passed; it leaves the event as
\* it is.
MainWaitInterval ==
    /\ main_pc = "wait_interval"
    /\ waited' = TRUE
    /\ main_pc' = "top"
    /\ UNCHANGED <<connected, debug_mode_enabled, should_publish_force_checked,
                   force_check_event, mqtt_pc, loop_locals, unacknowledged,
                   requested_since_run>>

\* on_force_check_callback, line 82 (also reached from
\* on_custom_interval_callback, line 99).
OnForceCheck ==
    /\ mqtt_pc = "idle"
    /\ should_publish_force_checked' = TRUE
    /\ unacknowledged' = TRUE
    /\ requested_since_run' = TRUE
    /\ mqtt_pc' = "force_set"
    /\ UNCHANGED <<main_pc, connected, debug_mode_enabled, force_check_event,
                   loop_locals, waited>>

\* on_force_check_callback, line 83.
OnForceCheckSet ==
    /\ mqtt_pc = "force_set"
    /\ force_check_event' = TRUE
    /\ mqtt_pc' = "idle"
    /\ UNCHANGED <<main_pc, connected, debug_mode_enabled,
                   should_publish_force_checked, loop_locals, unacknowledged,
                   requested_since_run, waited>>

\* on_debug_mode_callback(enabled), lines 106-112.
OnDebugModeOf(enabled) ==
    /\ mqtt_pc = "idle"
    /\ debug_mode_enabled' = enabled
    /\ mqtt_pc' = IF debug_mode_enabled /\ ~enabled THEN "debug_set" ELSE "idle"
    /\ UNCHANGED <<main_pc, connected, should_publish_force_checked,
                   force_check_event, loop_locals, unacknowledged,
                   requested_since_run, waited>>

OnDebugMode == \E enabled \in BOOLEAN : OnDebugModeOf(enabled)

\* on_debug_mode_callback, line 114.
OnDebugModeSet ==
    /\ mqtt_pc = "debug_set"
    /\ force_check_event' = TRUE
    /\ mqtt_pc' = "idle"
    /\ UNCHANGED <<main_pc, connected, debug_mode_enabled,
                   should_publish_force_checked, loop_locals, unacknowledged,
                   requested_since_run, waited>>

\* The broker connection is lost or made again.
ConnectionChange ==
    /\ connected' = ~connected
    /\ UNCHANGED <<main_pc, debug_mode_enabled, should_publish_force_checked,
                   force_check_event, mqtt_pc, loop_locals, unacknowledged,
                   requested_since_run, waited>>

(***************************************************************************)
(* src/lib/history.py: StatusHistory, as src/lib/http_server.py uses it.    *)
(* The OrderedDict self.history is a sequence of items, the start of the    *)
(* dictionary first; an item is a key (timestamp_str) and a value (a        *)
(* HistoricalStatus without its images).  update_status reads the clock,    *)
(* which is counted in ticks of 1/TicksPerSecond second, and passes         *)
(* str(int(current_time.timestamp())) as the key: the whole seconds.        *)
(***************************************************************************)
\* The entries a StatusHistory keeps.
max_size == 2

TicksPerSecond == 2

\* The last tick at which update_status is called.
MaxClock == 8

\* int(current_time.timestamp()), which str() writes out digit for digit.
SecondsOf(ticks) == ticks \div TicksPerSecond

\* The statuses update_status is called with.
HistoryStatuses ==
    {StatusOf(FALSE, 0, FALSE), StatusOf(FALSE, 0, TRUE),
     StatusOf(TRUE, 2, FALSE), StatusOf(FALSE, 2, FALSE)}

\* The timestamps a page is asked for.
AskedTimestamps == 0..(SecondsOf(MaxClock) + 1)

VARIABLES
    history,             \* self.history
    self_last,           \* self.last: <<>> for None
    last_timestamp_str,  \* self.last_timestamp_str: <<>> for None
    clock,               \* the time of the latest update_status, in ticks
    keys_passed,         \* the timestamp_str of the add_status calls so far
    key_reused,          \* whether a call passed a timestamp_str passed before
    lookup               \* the latest get_by_timestamp call and how it ended

history_vars == <<history, self_last, last_timestamp_str, clock, keys_passed,
                  key_reused, lookup>>

HistoricalStatus(boiler_status, timestamp, timestamp_str) ==
    [heating          |-> boiler_status.heating,
     lights_on        |-> boiler_status.lights_on,
     general_light_on |-> boiler_status.general_light_on,
     timestamp        |-> timestamp,
     timestamp_str    |-> timestamp_str]

\* What _status_differs_from_previous compares of a history entry.
ComparedFields(entry) ==
    StatusOf(entry.heating, entry.lights_on, entry.general_light_on)

Item(key, value) == [key |-> key, value |-> value]

DictKeys(dict) == {dict[i].key : i \in 1..Len(dict)}

\* dict[key] = value: in place when the key is there, at the end when not.
SetItem(dict, key, value) ==
    IF key \in DictKeys(dict)
    THEN [i \in 1..Len(dict) |-> IF dict[i].key = key THEN Item(key, value) ELSE dict[i]]
    ELSE Append(dict, Item(key, value))

\* dict.move_to_end(key, False)
MoveToStart(dict, key) ==
    SelectSeq(dict, LAMBDA item : item.key = key)
        \o SelectSeq(dict, LAMBDA item : item.key # key)

PopNewestWhileOver(dict, size) ==
    SubSeq(dict, Len(dict) - Min(Len(dict), size) + 1, Len(dict))

\* while len(dict) > size: dict.popitem(last=True)
PopWhileOver(dict, size) == SubSeq(dict, 1, Min(Len(dict), size))

\* list(self.history.keys())[0] and its value, <<>> when there is none.
NewestEntry(dict) == IF dict = <<>> THEN <<>> ELSE <<ComparedFields(dict[1].value)>>

\* Lines 69-78: the history after add_status.
HistoryAfterAdd(dict, boiler_status, timestamp, timestamp_str) ==
    IF status_differs_from_previous(NewestEntry(dict), boiler_status)
    THEN PopWhileOver(
             MoveToStart(
                 SetItem(dict, timestamp_str,
                         HistoricalStatus(boiler_status, timestamp, timestamp_str)),
                 timestamp_str),
             max_size)
    ELSE dict

\* Lines 107-115: self.history[timestamp_str] raises KeyError when the key
\* is not in the dictionary; no value of the dictionary is None.
get_by_timestamp(dict, kept, kept_key, timestamp_str) ==
    IF kept_key = <<timestamp_str>> THEN [raised |-> FALSE, value |-> kept]
    ELSE IF timestamp_str \in DictKeys(dict)
    THEN [raised |-> FALSE,
          value  |-> <<dict[CHOOSE i \in 1..Len(dict) : dict[i].key = timestamp_str].value>>]
    ELSE [raised |-> TRUE, value |-> <<>>]

\* Lines 118-120: list(self.history.values())
get_history(dict) == [i \in 1..Len(dict) |-> dict[i].value]

HistoryInit ==
    /\ history = <<>>
    /\ self_last = <<>>
    /\ last_timestamp_str = <<>>
    /\ clock = 0
    /\ keys_passed = {}
    /\ key_reused = FALSE
    /\ lookup = <<>>

\* http_server.py:463-482 with history.py:53-78: update_status reads the
\* clock and calls add_status under the write lock.
UpdateStatusOf(boiler_status, ticks) ==
    /\ clock + ticks <= MaxClock
    /\ clock' = clock + ticks
    /\ LET timestamp_str == SecondsOf(clock + ticks)
       IN  /\ self_last' = <<HistoricalStatus(boiler_status, clock + ticks, timestamp_str)>>
           /\ last_timestamp_str' = <<timestamp_str>>
           /\ history' = HistoryAfterAdd(history, boiler_status, clock + ticks, timestamp_str)
           /\ keys_passed' = keys_passed \cup {timestamp_str}
           /\ key_reused' = (key_reused \/ timestamp_str \in keys_passed)
    /\ UNCHANGED lookup

UpdateStatus ==
    \E boiler_status \in HistoryStatuses, ticks \in 1..TicksPerSecond :
        UpdateStatusOf(boiler_status, ticks)

\* http_server.py:84-107: grid_page asks for a timestamp.
GetByTimestampOf(timestamp_str) ==
    /\ lookup' = [timestamp_str |-> timestamp_str,
                  known |-> (last_timestamp_str = <<timestamp_str>>
                               \/ timestamp_str \in DictKeys(history)),
                  outcome |-> get_by_timestamp(history, self_last,
                                               last_timestamp_str, timestamp_str)]
    /\ UNCHANGED <<history, self_last, last_timestamp_str, clock, keys_passed, key_reused>>

GetByTimestamp == \E timestamp_str \in AskedTimestamps : GetByTimestampOf(timestamp_str)

other_vars == <<pure_vars, replay_vars, lock_vars, cleanup_vars, main_vars, history_vars>>

vars == <<analyze_vars, other_vars>>

AnalyzeIdle ==
    /\ pc = "idle"
    /\ general_light_on = FALSE
    /\ lower_green = <<>>
    /\ upper_green = <<>>
    /\ frame_index = 0
    /\ determined_light_values = <<>>
    /\ failed_frames = 0
    /\ stored_frames = <<>>
    /\ result = <<>>
    /\ last_ret = TRUE
    /\ reads = 0
    /\ error_images = {}
    /\ sleeps = {}
    /\ initial_frame = None
    /\ captured = <<>>

Init ==
    /\ AnalyzeIdle
    /\ args = <<>>
    /\ returned = <<>>
    /\ previous = <<>>
    /\ LockInit
    /\ CleanupInit
    /\ MainInit
    /\ HistoryInit

Next ==
    \/ AnalyzeCall /\ UNCHANGED other_vars
    \/ InitialCapture /\ UNCHANGED other_vars
    \/ LoopIteration /\ UNCHANGED other_vars
    \/ Resolve /\ UNCHANGED other_vars

Spec == Init /\ [][Next]_vars

(***************************************************************************)
(* Two runs of analyze on the same capture results: a first run, then, if   *)
(* its captures are on record (the run reached the vote, or its initial     *)
(* capture failed), a second run to which cap.read() returns the same.      *)
(***************************************************************************)
\* The captures of the finished run are all known.
OnRecord ==
    /\ pc = "done"
    /\ \/ frame_index = NUMBER_OF_FRAMES
       \/ initial_frame = None

RunRecord ==
    [initial_ret   |-> initial_frame # None,
     initial_frame |-> initial_frame,
     captured      |-> captured,
     result        |-> result]

FirstRun ==
    /\ previous = <<>>
    /\ \/ pc = "idle" /\ AnalyzeCall
       \/ InitialCapture
       \/ LoopIteration
       \/ Resolve
    /\ UNCHANGED other_vars

SecondCall ==
    /\ previous = <<>>
    /\ OnRecord
    /\ AnalyzeCall
    /\ previous' = <<RunRecord>>
    /\ UNCHANGED <<pure_vars, lock_vars, cleanup_vars, main_vars, history_vars>>

SecondInitialCapture ==
    /\ previous # <<>>
    /\ InitialCaptureOf(previous[1].initial_ret,
                        IF previous[1].initial_ret THEN previous[1].initial_frame ELSE 0)
    /\ UNCHANGED other_vars

SecondLoopIteration ==
    /\ previous # <<>>
    /\ pc = "loop"
    /\ LoopIterationOf(TRUE, previous[1].captured[frame_index + 1])
    /\ UNCHANGED other_vars

SecondResolve ==
    /\ previous # <<>>
    /\ Resolve
    /\ UNCHANGED other_vars

NextReplay ==
    \/ FirstRun
    \/ SecondCall
    \/ SecondInitialCapture
    \/ SecondLoopIteration
    \/ SecondResolve

SpecReplay == Init /\ [][NextReplay]_vars

(***************************************************************************)
(* The threads' use of the lock: each, again and again, takes the read or   *)
(* the write lock and gives it back.                                        *)
(***************************************************************************)
NextLock ==
    \/ \E t \in Threads : AcquireRead(t) /\ UNCHANGED <<analyze_vars, pure_vars, replay_vars, cleanup_vars, main_vars, history_vars>>
    \/ \E t \in Threads : WakeReader(t) /\ UNCHANGED <<analyze_vars, pure_vars, replay_vars, cleanup_vars, main_vars, history_vars>>
    \/ \E t \in Threads : ReleaseRead(t) /\ UNCHANGED <<analyze_vars, pure_vars, replay_vars, cleanup_vars, main_vars, history_vars>>
    \/ \E t \in Threads : AcquireWrite(t) /\ UNCHANGED <<analyze_vars, pure_vars, replay_vars, cleanup_vars, main_vars, history_vars>>
    \/ \E t \in Threads : WakeWriter(t) /\ UNCHANGED <<analyze_vars, pure_vars, replay_vars, cleanup_vars, main_vars, history_vars>>
    \/ \E t \in Threads : ReleaseWrite(t) /\ UNCHANGED <<analyze_vars, pure_vars, replay_vars, cleanup_vars, main_vars, history_vars>>

SpecLock == Init /\ [][NextLock]_vars

(***************************************************************************)
(* is_percentage_reached(total, count, percentage) on its own.              *)
(***************************************************************************)
\* Largest total and count of the calls.
MaxPixels == 50

\* The thresholds of the calls: those the program uses (25, 50), the end
\* points, and some whose hundredth is no binary fraction.
Percentages == {0, 25, 29, 50, 58, 70, 100}

InitPct ==
    /\ AnalyzeIdle
    /\ args \in (0..MaxPixels) \X (0..MaxPixels) \X Percentages
    /\ returned = <<>>
    /\ previous = <<>>
    /\ LockInit
    /\ CleanupInit
    /\ MainInit
    /\ HistoryInit

CallIsPercentageReached ==
    /\ returned = <<>>
    /\ returned' = <<is_percentage_reached(args[1], args[2], args[3])>>
    /\ UNCHANGED <<args, analyze_vars, replay_vars, lock_vars, cleanup_vars, main_vars, history_vars>>

SpecPct == InitPct /\ [][CallIsPercentageReached]_vars

(***************************************************************************)
(* determine_number_of_lights_in_frame(frame, lower, upper) on its own.     *)
(***************************************************************************)
\* n of a light whose sub-ROIs are covered to level c of 2.
Cover(i, c) ==
    <<(RoiSize(LIGHT_ROIS[i][1]) * c) \div 2, (RoiSize(LIGHT_ROIS[i][2]) * c) \div 2>>

\* The frames of the calls: every light covered not at all, by half or in
\* full, in one colour, in a full-size or a smaller picture.
DetectorFrames ==
    { [width   |-> size[1],
       height  |-> size[2],
       gray    |-> 0,
       pressed |-> [hsv |-> BLACK, n |-> 0],
       lights  |-> [i \in 1..Len(LIGHT_ROIS) |->
                       [hsv |-> paint, n |-> Cover(i, cover[i])]]] :
      size \in {<<FRAME_WIDTH, FRAME_HEIGHT>>, <<320, 240>>},
      paint \in {GREEN, DIM_GREEN},
      cover \in [1..Len(LIGHT_ROIS) -> 0..2] }

InitDet ==
    /\ AnalyzeIdle
    /\ args \in DetectorFrames \X GreenBounds
    /\ returned = <<>>
    /\ previous = <<>>
    /\ LockInit
    /\ CleanupInit
    /\ MainInit
    /\ HistoryInit

CallDetermineNumberOfLights ==
    /\ returned = <<>>
    /\ returned' = <<determine_number_of_lights_in_frame(
                        args[1], args[2][1], args[2][2])>>
    /\ UNCHANGED <<args, analyze_vars, replay_vars, lock_vars, cleanup_vars, main_vars, history_vars>>

SpecDet == InitDet /\ [][CallDetermineNumberOfLights]_vars

(***************************************************************************)
(* run_cleanup on its own, started on every folder of at most one file per  *)
(* name.                                                                    *)
(***************************************************************************)
Folders == UNION {[names -> 1..MaxFileSize] : names \in SUBSET FileNames}

InitCleanup ==
    /\ AnalyzeIdle
    /\ args = <<>>
    /\ returned = <<>>
    /\ previous = <<>>
    /\ LockInit
    /\ MainInit
    /\ HistoryInit
    /\ folder \in Folders
    /\ cleanup_pc = "idle"
    /\ current_size = 0
    /\ files_to_delete = <<>>
    /\ size_after_deletion = 0
    /\ deleted = <<>>
    /\ unlink_failed = {}

not_cleanup_vars == <<analyze_vars, pure_vars, replay_vars, lock_vars, main_vars, history_vars>>

NextCleanup ==
    \/ CleanupMeasure /\ UNCHANGED not_cleanup_vars
    \/ CleanupDelete /\ UNCHANGED not_cleanup_vars
    \/ CleanupStop /\ UNCHANGED not_cleanup_vars
    \/ CleanupWait /\ UNCHANGED not_cleanup_vars

SpecCleanup == InitCleanup /\ [][NextCleanup]_vars

(***************************************************************************)
(* analyze on the same frames in two orders: a run of NUMBER_OF_FRAMES      *)
(* captures that all succeed, made of at most MaxKinds kinds of frame, each *)
(* kind shown for some frames in a row; once in the order of args.kinds,    *)
(* once in the order args.order puts them.                                  *)
(***************************************************************************)
\* The most kinds of frame in a run.
MaxKinds == 3

\* The frames with 0..4 lights lit, and the frame with a gap.
SampleKinds == (0..Len(LIGHT_ROIS)) \cup {GAP_FRAME}

\* The sequences of n positive counts that add up to total.
RECURSIVE Compositions(_, _)
Compositions(total, n) ==
    IF n = 1 THEN {<<total>>}
    ELSE UNION {{Append(c, final) : c \in Compositions(total - final, n - 1)}
                : final \in 1..(total - n + 1)}

\* The runs of n kinds of frame: the kinds, how long each is shown, an order.
OrderInputs(n) ==
    {[kinds |-> k, counts |-> c, order |-> o] :
        k \in {k \in [1..n -> SampleKinds] : \A i, j \in 1..n : i < j => k[i] < k[j]},
        c \in Compositions(NUMBER_OF_FRAMES, n),
        o \in {o \in [1..n -> 1..n] : \A i, j \in 1..n : i # j => o[i] # o[j]}}

\* The captures of the run: kinds[order[1]] counts[order[1]] times, and so on.
RECURSIVE Captures(_, _, _, _)
Captures(kinds, counts, order, n) ==
    IF n = 0 THEN <<>>
    ELSE Captures(kinds, counts, order, n - 1)
            \o [i \in 1..counts[order[n]] |-> kinds[order[n]]]

\* Lines 194-318 when every cap.read() succeeds and the initial frame is
\* dark and not pressed: the range, the labels of the loop, the verdict.
AnalyzeCaptures(frames_shown) ==
    LET bounds == green_bounds(FALSE, FALSE)
        label(k) == LightsInFrame[k][bounds]
        numeric == SelectSeq(frames_shown, LAMBDA k : label(k) # None)
        values == [i \in 1..Len(numeric) |-> label(numeric[i])]
        frames == [i \in 1..Len(frames_shown) |->
                      FrameData(frames_shown[i],
                                IF label(frames_shown[i]) = None THEN ERROR
                                ELSE label(frames_shown[i]))]
    IN  Verdict(values, Len(frames_shown) - Len(numeric), frames, FALSE,
                bounds[1], bounds[2])

\* What the claim compares of a result: None, or heating and lights_on.
Outcome(run_result) ==
    IF run_result = <<>> THEN <<>>
    ELSE <<[heating |-> run_result[1].heating, lights_on |-> run_result[1].lights_on]>>

InitOrder ==
    /\ AnalyzeIdle
    /\ \E n \in 1..MaxKinds : args \in OrderInputs(n)
    /\ returned = <<>>
    /\ previous = <<>>
    /\ LockInit
    /\ CleanupInit
    /\ MainInit
    /\ HistoryInit

CallAnalyzeInTwoOrders ==
    /\ returned = <<>>
    /\ LET n == Len(args.kinds)
       IN  returned' =
             <<[in_order  |-> Outcome(AnalyzeCaptures(
                                 Captures(args.kinds, args.counts, [i \in 1..n |-> i], n))),
                reordered |-> Outcome(AnalyzeCaptures(
                                 Captures(args.kinds, args.counts, args.order, n)))]>>
    /\ UNCHANGED <<args, analyze_vars, replay_vars, lock_vars, cleanup_vars, main_vars, history_vars>>

SpecOrder == InitOrder /\ [][CallAnalyzeInTwoOrders]_vars

(***************************************************************************)
(* main_loop with the MQTT thread's callbacks and the broker connection     *)
(* coming and going.                                                        *)
(***************************************************************************)
not_main_vars == <<analyze_vars, pure_vars, replay_vars, lock_vars, cleanup_vars, history_vars>>

NextMain ==
    \/ MainTop /\ UNCHANGED not_main_vars
    \/ MainSleep /\ UNCHANGED not_main_vars
    \/ MainGate /\ UNCHANGED not_main_vars
    \/ MainWaitEvent /\ UNCHANGED not_main_vars
    \/ MainClearEvent /\ UNCHANGED not_main_vars
    \/ MainCheckWoken /\ UNCHANGED not_main_vars
    \/ MainOpenCamera /\ UNCHANGED not_main_vars
    \/ MainAnalyze /\ UNCHANGED not_main_vars
    \/ MainRelease /\ UNCHANGED not_main_vars
    \/ MainCheckConnected /\ UNCHANGED not_main_vars
    \/ MainCheckStatus /\ UNCHANGED not_main_vars
    \/ MainClearBusy /\ UNCHANGED not_main_vars
    \/ MainUpdateStatus /\ UNCHANGED not_main_vars
    \/ MainPublishState /\ UNCHANGED not_main_vars
    \/ MainCheckForce /\ UNCHANGED not_main_vars
    \/ MainPublishForce /\ UNCHANGED not_main_vars
    \/ MainResetForce /\ UNCHANGED not_main_vars
    \/ MainWaitInterval /\ UNCHANGED not_main_vars
    \/ OnForceCheck /\ UNCHANGED not_main_vars
    \/ OnForceCheckSet /\ UNCHANGED not_main_vars
    \/ OnDebugMode /\ UNCHANGED not_main_vars
    \/ OnDebugModeSet /\ UNCHANGED not_main_vars
    \/ ConnectionChange /\ UNCHANGED not_main_vars

SpecMain == Init /\ [][NextMain]_vars

(***************************************************************************)
(* main_loop while the client stays connected, the camera opens and every   *)
(* analysis run succeeds, with force checks requested at any time.  The     *)
(* thread of main_loop keeps running (none of its steps blocks here), and   *)
(* the MQTT thread finishes a callback it has begun.                        *)
(***************************************************************************)
MainLoopForce ==
    \/ MainTop /\ UNCHANGED not_main_vars
    \/ MainGate /\ UNCHANGED not_main_vars
    \/ MainOpenCameraOf(TRUE) /\ UNCHANGED not_main_vars
    \/ (\E outcome \in AnalyzeOutcomes \ {<<>>} : MainAnalyzeOf(outcome))
           /\ UNCHANGED not_main_vars
    \/ MainRelease /\ UNCHANGED not_main_vars
    \/ MainCheckConnected /\ UNCHANGED not_main_vars
    \/ MainCheckStatus /\ UNCHANGED not_main_vars
    \/ MainClearBusy /\ UNCHANGED not_main_vars
    \/ MainUpdateStatus /\ UNCHANGED not_main_vars
    \/ MainPublishState /\ UNCHANGED not_main_vars
    \/ MainCheckForce /\ UNCHANGED not_main_vars
    \/ MainPublishForce /\ UNCHANGED not_main_vars
    \/ MainResetForce /\ UNCHANGED not_main_vars
    \/ MainWaitInterval /\ UNCHANGED not_main_vars

ForceCheckReturns == OnForceCheckSet /\ UNCHANGED not_main_vars

NextForce ==
    \/ MainLoopForce
    \/ OnForceCheck /\ UNCHANGED not_main_vars
    \/ ForceCheckReturns

SpecForce ==
    Init /\ [][NextForce]_vars /\ WF_vars(MainLoopForce) /\ WF_vars(ForceCheckReturns)

(***************************************************************************)
(* StatusHistory on its own: update_status calls and page requests, in any  *)
(* order.                                                                   *)
(***************************************************************************)
not_history_vars == <<analyze_vars, pure_vars, replay_vars, lock_vars, cleanup_vars,
                      main_vars>>

NextHistory ==
    \/ UpdateStatus /\ UNCHANGED not_history_vars
    \/ GetByTimestamp /\ UNCHANGED not_history_vars

SpecHistory == Init /\ [][NextHistory]_vars

(***************************************************************************)
(* What a finished run shows, read off the stored frames alone.             *)
(***************************************************************************)
LightCounts == 0..Len(LIGHT_ROIS)

\* Number of stored frames labelled v.
Tally(v) ==
    Cardinality({i \in 1..Len(stored_frames) : stored_frames[i].light_value = v})

\* The light counts that occurred.
Seen == {v \in LightCounts : Tally(v) > 0}

FirstSeen(v) ==
    CHOOSE i \in 1..Len(stored_frames) :
        /\ stored_frames[i].light_value = v
        /\ \A j \in 1..(i - 1) : stored_frames[j].light_value # v

\* The most frequent value of S; among equally frequent ones the one seen
\* first (the order Counter.most_common documents).
Leader(S) ==
    LET tally == [v \in S |-> Tally(v)]
        first == [v \in S |-> FirstSeen(v)]
    IN  CHOOSE v \in S :
            \A u \in S \ {v} :
                \/ tally[v] > tally[u]
                \/ tally[v] = tally[u] /\ first[v] < first[u]

V1 == Leader(Seen)
V2 == LET seen == Seen IN Leader(seen \ {Leader(seen)})

Adjacent(a, b) == a - b = 1 \/ b - a = 1

\* More than 25% of the loop frames.
OverQuarter(n) == 4 * n > NUMBER_OF_FRAMES

\* analyze has returned after all loop captures succeeded.
Voted == pc = "done" /\ frame_index = NUMBER_OF_FRAMES

GatePassed == ~OverQuarter(Tally(ERROR))

Returned == result # <<>>

C2_NonAdjacentAborts ==
    /\ (Voted /\ Cardinality(Seen) >= 2) =>
          LET v1 == V1
              v2 == V2
          IN  (OverQuarter(Tally(v2)) /\ ~Adjacent(v1, v2)) => ~Returned
    /\ (Returned /\ result[1].heating)
       => (Cardinality(Seen) >= 2 /\ Adjacent(V1, V2))

C2_Witness ==
    /\ Voted
    /\ Tally(1) = 15
    /\ Tally(3) = 15
    /\ ~Returned

C4_SingleValue ==
    (/\ Voted
     /\ GatePassed
     /\ Cardinality(Seen) = 1)
    => /\ Returned
       /\ ~result[1].heating
       /\ \A v \in Seen : result[1].lights_on = (IF v = 1 THEN 0 ELSE v)

C4_Witness ==
    /\ Voted
    /\ Tally(1) = NUMBER_OF_FRAMES
    /\ Returned
    /\ ~result[1].heating
    /\ result[1].lights_on = 0

\* The lights_on the vote resolves to, before the normalization.
Resolved ==
    LET v1 == V1
    IN  IF Cardinality(Seen) = 1 THEN v1 ELSE LET v2 == V2 IN Max(v1, v2)

\* C5: in every returned status lights_on is 0 when the resolved lights_on
\* is 1 and heating is false, and the resolved lights_on otherwise.
C5_Normalization ==
    Returned =>
        LET resolved == Resolved
        IN  result[1].lights_on =
                (IF resolved = 1 /\ ~result[1].heating THEN 0 ELSE resolved)

C5_Witness ==
    /\ Returned
    /\ Resolved = 1
    /\ result[1].heating
    /\ result[1].lights_on = 1

\* C6: a run with 8 or more detector failures among its 30 loop frames
\* returns None, and a run with 7 or fewer returns None only when its two
\* most frequent light counts blink without being adjacent.
C6_FailureGate ==
    Voted =>
        /\ OverQuarter(Tally(ERROR)) => ~Returned
        /\ (~OverQuarter(Tally(ERROR)) /\ ~Returned)
           => /\ Cardinality(Seen) >= 2
              /\ LET v1 == V1
                     v2 == V2
                 IN  OverQuarter(Tally(v2)) /\ ~Adjacent(v1, v2)

C6_Witness ==
    /\ Voted
    /\ Tally(ERROR) = 8
    /\ Tally(2) = 22
    /\ ~Returned

\* C7: once a capture has failed (the initial one or a loop one) analyze has
\* returned None, having made that one read beyond the successful ones, and
\* makes no further read in the run: the next step is a new call.
C7_CaptureFailureAborts ==
    /\ [](~last_ret =>
            /\ pc = "done"
            /\ ~Returned
            /\ reads = frame_index + (IF lower_green = <<>> THEN 1 ELSE 2))
    /\ [][~last_ret => (pc' = "initial" /\ reads' = 0)]_vars

C7_Witness ==
    /\ ~last_ret
    /\ pc = "done"
    /\ ~Returned
    /\ frame_index = NUMBER_OF_FRAMES - 1
    /\ failed_frames = 0
    /\ reads = NUMBER_OF_FRAMES + 1

\* The lights of the frame of the call that the classifier decides lit:
\* more than 50% of the pixels of their two sub-ROIs match.
LitLights ==
    {i \in 1..Len(LIGHT_ROIS) :
        100 * GreenPixels(args[1], i, args[2][1], args[2][2])
            > LIGHT_REQUIRED_PERCENTAGE_GREEN * TotalPixels(i)}

\* C8: the detector returns a count k only when the lit lights are exactly
\* the first k, k in 0..4, and returns None whenever a light is lit while a
\* lower one is not.
C8_ContiguousPrefix ==
    returned # <<>> =>
        /\ returned[1] # None =>
              /\ returned[1] \in 0..Len(LIGHT_ROIS)
              /\ LitLights = 1..returned[1]
        /\ (\E i \in LitLights : \E j \in 1..(i - 1) : j \notin LitLights)
              => returned[1] = None

C8_Witness ==
    /\ returned = <<None>>
    /\ args[1].width = FRAME_WIDTH
    /\ LitLights = {1, 2, 4}

\* C9: for total > 0, is_percentage_reached(total, count, p) is true iff
\* count > total * p / 100.
C9_ExactThreshold ==
    (returned # <<>> /\ args[1] > 0)
        => (returned[1] <=> (100 * args[2] > args[1] * args[3]))

\* C10: is_percentage_reached(0, count, p) is false for every count.
C10_ZeroTotalIsFalse ==
    (returned # <<>> /\ args[1] = 0) => (returned[1] = FALSE)

\* The pixels of light i of the frame of the call that match the range of
\* the call, over both sub-ROIs, and the area of the two sub-ROIs.
Matched(i) == GreenPixels(args[1], i, args[2][1], args[2][2])
Area(i) == TotalPixels(i)

\* The call decides on light i alone: the picture is full size, every lower
\* light matches in full and no higher light matches at all, so the count
\* returned is i when light i is decided lit and i - 1 when it is not.
DecidesOn(i) ==
    /\ returned # <<>>
    /\ args[1].width = FRAME_WIDTH
    /\ \A j \in 1..(i - 1) : Matched(j) = Area(j)
    /\ \A j \in (i + 1)..Len(LIGHT_ROIS) : Matched(j) = 0

PolicyRangeOf ==
    [k \in InitialFrames |->
        IF determine_pressed_state(Frame(k))
        THEN <<PRESSED_LOWER_GREEN, PRESSED_UPPER_GREEN>>
        ELSE IF determine_general_light(Frame(k))
        THEN <<LIGHT_LOWER_GREEN, LIGHT_UPPER_GREEN>>
        ELSE <<DARK_LOWER_GREEN, DARK_UPPER_GREEN>>]

PolicyRange == PolicyRangeOf[initial_frame]

\* The label of a frame whose lights are counted under the given range.
LabelUnder(k, bounds) ==
    IF LightsInFrame[k][bounds] = None THEN ERROR ELSE LightsInFrame[k][bounds]

\* The 30 loop iterations of the run have all run.
LoopDone == frame_index = NUMBER_OF_FRAMES

\* C12: the range of a run is, from the initial capture on, the one the
\* policy selects from the initial frame (pressed, else general light, else
\* dark); each of the 30 loop frames was counted under that range, and a
\* returned status reports it.
C12_RangeFixedForRun ==
    initial_frame # None =>
        /\ <<lower_green, upper_green>> = PolicyRange
        /\ LoopDone =>
              \A i \in 1..Len(stored_frames) :
                  stored_frames[i].light_value =
                      LabelUnder(stored_frames[i].original_frame, PolicyRange)
        /\ Returned => /\ result[1].lower_green = PolicyRange[1]
                       /\ result[1].upper_green = PolicyRange[2]

C12_Witness ==
    /\ Voted
    /\ Returned
    /\ initial_frame = PRESSED_SCENE
    /\ result[1].lower_green = PRESSED_LOWER_GREEN
    /\ result[1].upper_green = PRESSED_UPPER_GREEN
    /\ \E i \in 1..Len(stored_frames) :
          /\ stored_frames[i].original_frame = DIM_FRAME
          /\ stored_frames[i].light_value = 0
          /\ LabelUnder(DIM_FRAME, <<DARK_LOWER_GREEN, DARK_UPPER_GREEN>>) = 1

\* The labels of the stored frames other than ERROR, in order.
NumericLabels(frames) ==
    LET numeric == SelectSeq(frames, LAMBDA f : f.light_value # ERROR)
    IN  [i \in 1..Len(numeric) |-> numeric[i].light_value]

\* The loop has run frame_index iterations, none with a failed capture.
Sampling == pc \in {"loop", "resolve"} \/ Voted

\* C13: while no capture has failed, every loop iteration so far has
\* recorded one FrameSample and either counted a failure or added a value
\* to the tally; after the 30 iterations the samples are those of the
\* frames captured, in capture order, labelled ERROR and counted in
\* failed_frames when the detector failed, labelled with the count and
\* added to the tally otherwise; a returned status has exactly these 30
\* frames, and its ERROR frames and tallied occurrences add up to 30.
C13_OneSamplePerIteration ==
    /\ Sampling =>
          /\ Len(stored_frames) = frame_index
          /\ failed_frames + Len(determined_light_values) = frame_index
    /\ LoopDone =>
          /\ \A i \in 1..Len(stored_frames) :
                /\ stored_frames[i].original_frame = captured[i]
                /\ stored_frames[i].light_value =
                       LabelUnder(captured[i], <<lower_green, upper_green>>)
          /\ failed_frames = Tally(ERROR)
          /\ determined_light_values = NumericLabels(stored_frames)
    /\ Returned =>
          /\ Len(result[1].frames) = NUMBER_OF_FRAMES
          /\ result[1].frames = stored_frames
          /\ Tally(ERROR) + Len(determined_light_values) = NUMBER_OF_FRAMES

C13_Witness ==
    /\ Returned
    /\ Len(result[1].frames) = NUMBER_OF_FRAMES
    /\ Tally(ERROR) = 3
    /\ failed_frames = 3
    /\ Len(determined_light_values) = NUMBER_OF_FRAMES - 3
    /\ result[1].frames[1].light_value = ERROR
    /\ result[1].frames[4].light_value = 2

\* C14: every completed loop iteration but the 30th has been followed by
\* the inter-frame sleep, whatever its detector outcome, and the 30th by
\* none.
C14_DelayBetweenCaptures ==
    \A i \in 0..(frame_index - 1) :
        (i \in sleeps) <=> (i # NUMBER_OF_FRAMES - 1)

\* C15: frequency_frames of a returned status has one entry per light count
\* that occurred, in the order in which the counts first occurred, each
\* holding the first stored frame with that count and the number of frames
\* with it; no entry is an ERROR frame.
C15_FrequencyFrames ==
    Returned =>
        LET ff == result[1].frequency_frames
        IN  /\ Len(ff) = Cardinality(Seen)
            /\ \A n \in 1..Len(ff) :
                  /\ ff[n].light_value \in Seen
                  /\ ff[n].light_value # ERROR
                  /\ ff[n].count = Tally(ff[n].light_value)
                  /\ ff[n].original_frame =
                        stored_frames[FirstSeen(ff[n].light_value)].original_frame
            /\ \A n, m \in 1..Len(ff) :
                  n < m => FirstSeen(ff[n].light_value) < FirstSeen(ff[m].light_value)

C15_Witness ==
    /\ Returned
    /\ Tally(ERROR) = 0
    /\ stored_frames[1].light_value = 3
    /\ Tally(3) = 10
    /\ Tally(2) = 20
    /\ Len(result[1].frequency_frames) = 2
    /\ result[1].frequency_frames[1].light_value = 3
    /\ result[1].frequency_frames[1].count = 10
    /\ result[1].frequency_frames[2].light_value = 2
    /\ result[1].frequency_frames[2].count = 20

\* The positions of the ERROR frames in the frames of the returned status.
ErrorFramesOfStatus ==
    {i \in 1..Len(result[1].frames) : result[1].frames[i].light_value = ERROR}

\* C16 as stated: a returned status carries no record of which or how many
\* frames failed.
C16_NoFailureRecord ==
    Returned => ErrorFramesOfStatus = {}

\* C16, amended: a returned status has no failure counter, and its verdict,
\* range and frequency frames carry no failure marker, but its frames list
\* holds an ERROR frame at the position of every failed frame and nowhere
\* else: as many as failed_frames, at most 7.
C16_FailuresOnlyInFrames ==
    Returned =>
        /\ DOMAIN result[1] =
              {"heating", "lights_on", "general_light_on", "frames",
               "frequency_frames", "lower_green", "upper_green"}
        /\ \A n \in 1..Len(result[1].frequency_frames) :
              result[1].frequency_frames[n].light_value # ERROR
        /\ ErrorFramesOfStatus = {j + 1 : j \in error_images}
        /\ Cardinality(ErrorFramesOfStatus) = failed_frames
        /\ failed_frames <= 7

C16_Witness ==
    /\ Returned
    /\ failed_frames = 7
    /\ ErrorFramesOfStatus = 24..NUMBER_OF_FRAMES
    /\ result[1].lights_on = 3
    /\ ~result[1].heating

\* C17: at every point of a run, so at its end, however it ends, the error
\* images written are as many as the frames on which the detector failed
\* so far; after the 30 iterations they are the images of exactly the
\* ERROR frames: none is written for a successful frame.
C17_OneErrorImagePerFailure ==
    /\ Cardinality(error_images) = failed_frames
    /\ error_images \subseteq 0..(frame_index - 1)
    /\ LoopDone =>
          error_images =
              {i - 1 : i \in {j \in 1..Len(stored_frames) :
                                 stored_frames[j].light_value = ERROR}}

C17_Witness ==
    /\ pc = "done"
    /\ ~last_ret
    /\ frame_index = 5
    /\ failed_frames = 2
    /\ error_images = {3, 4}

ReadHolders == {t \in Threads : thread[t] = "reading"}
WriteHolders == {t \in Threads : thread[t] = "writing"}

\* C19: at most one thread holds the write lock, and none holds a read lock
\* while one holds the write lock; _writers and _readers count the holders.
C19_MutualExclusion ==
    /\ writers = Cardinality(WriteHolders)
    /\ readers = Cardinality(ReadHolders)
    /\ writers <= 1
    /\ ~(writers > 0 /\ readers > 0)
    /\ Cardinality(WriteHolders) <= 1
    /\ WriteHolders # {} => ReadHolders = {}

C19_Witness ==
    /\ Cardinality(WriteHolders) = 1
    /\ \E t \in Threads : thread[t] = "write_wait"
    /\ \E t \in Threads : thread[t] = "read_wait"

\* C20: a thread that calls _acquire_read while no writer holds the lock or
\* waits for it returns holding the read lock, without waiting, whatever
\* the number of readers; so a thread waits in _acquire_read only when a
\* writer holds the lock or waits for it.
C20_ReadersShare ==
    [][\A t \in Threads :
          (thread[t] = "idle" /\ thread'[t] \in {"reading", "read_wait"})
              => IF writers = 0 /\ write_waiting = 0
                 THEN thread'[t] = "reading" /\ readers' = readers + 1
                 ELSE thread'[t] = "read_wait" /\ readers' = readers]_vars

C20_Witness ==
    /\ Cardinality(ReadHolders) >= 2
    /\ readers = Cardinality(ReadHolders)
    /\ writers = 0

(***************************************************************************)
(* The cleanup of the error image folder.                                   *)
(***************************************************************************)
\* The files deleted so far in this pass were deleted oldest first.
DeletedAscending ==
    \A i, j \in 1..Len(deleted) :
        i < j => deleted[i].timestamp <= deleted[j].timestamp

\* Each deletion of this pass happened while the tracked size was over the
\* cap.
DeletedWhileOver ==
    deleted # <<>> =>
        size_after_deletion + deleted[Len(deleted)].size > max_size_bytes

\* C21 as stated: in a cleanup pass nothing is deleted when the folder size
\* is at most the maximum; otherwise files are deleted in ascending
\* timestamp order, no image is deleted while an older image with a
\* parseable timestamp remains, and deletion stops as soon as the tracked
\* size is at most the maximum.
C21_OldestFirstWhileAnyOlderRemains ==
    /\ (cleanup_pc # "idle" /\ current_size <= max_size_bytes) => deleted = <<>>
    /\ DeletedAscending
    /\ \A i \in 1..Len(deleted) : \A n \in DOMAIN folder :
          (MatchesGlob(n) /\ parse_timestamp_from_filename(n) # None)
              => parse_timestamp_from_filename(n) >= deleted[i].timestamp
    /\ DeletedWhileOver

\* C21, amended: in a cleanup pass nothing is deleted when the folder size
\* is at most the maximum; otherwise error-*.jpg files are deleted in
\* ascending timestamp order, no image is deleted while an older image
\* remains whose timestamp parses to a number above 0 and whose deletion has
\* not failed in this pass, and deletion stops as soon as the tracked size
\* is at most the maximum.
C21_OldestFirstUntilUnderCap ==
    /\ (cleanup_pc # "idle" /\ current_size <= max_size_bytes) => deleted = <<>>
    /\ DeletedAscending
    /\ \A i \in 1..Len(deleted) : \A n \in Candidates(folder) \ unlink_failed :
          parse_timestamp_from_filename(n) >= deleted[i].timestamp
    /\ DeletedWhileOver

\* A pass that failed to delete the oldest image, deleted two newer ones and
\* stopped under the cap.
C21_Witness ==
    /\ cleanup_pc = "waiting"
    /\ Len(deleted) = 2
    /\ unlink_failed # {}
    /\ \E n \in unlink_failed : parse_timestamp_from_filename(n) < deleted[1].timestamp
    /\ size_after_deletion <= max_size_bytes

(***************************************************************************)
(* main_loop: what it publishes, and when it runs.                          *)
(***************************************************************************)
\* The topics published so far in this iteration of the loop.
Topics == {outbox[i].topic : i \in 1..Len(outbox)}

StateTopics == {"heating", "general_light", "percentage"}

\* C22: main_loop publishes the heating, general-light and percentage
\* topics for a run only if the run's status equals the status of the run
\* before it (the status that update_status was given last); a status that
\* differs from it is not published.
C22_PublishedOnlyWhenConfirmed ==
    Topics \cap StateTopics # {} => preceding = status

\* C23: when main_loop starts a run after a run that yielded no result, it
\* has waited on the force-check event (lines 137 or 214) in between.
C23_WaitsAfterFailedRun ==
    (main_pc = "open_camera" /\ status = <<>>) => waited

\* The place of the first message on a topic in this iteration (0: none).
PlaceOf(topic) ==
    IF topic \in Topics
    THEN CHOOSE i \in 1..Len(outbox) :
             /\ outbox[i].topic = topic
             /\ \A j \in 1..(i - 1) : outbox[j].topic # topic
    ELSE 0

\* The three state topics were published, in this iteration and before
\* place n, with the values of the run's status.
StatePublishedBefore(n) ==
    /\ status # <<>>
    /\ PlaceOf("heating") \in 1..(n - 1)
    /\ PlaceOf("general_light") \in 1..(n - 1)
    /\ PlaceOf("percentage") \in 1..(n - 1)
    /\ outbox[PlaceOf("heating")].payload = (IF status[1].heating THEN "ON" ELSE "OFF")
    /\ outbox[PlaceOf("general_light")].payload =
           (IF status[1].general_light_on THEN "ON" ELSE "OFF")
    /\ outbox[PlaceOf("percentage")].payload \notin {EXIT, "25"}

\* C24: when analyze returned None and the client is connected, main_loop
\* publishes error=ON and nothing on the state topics; it publishes
\* error=OFF only after the heating, general-light and percentage states of
\* a successful run, in the same iteration.
C24_ErrorTopicFollowsRun ==
    /\ [](\A i \in 1..Len(outbox) :
            outbox[i].topic = "error" =>
                IF outbox[i].payload = "ON"
                THEN status = <<>> /\ Topics = {"error"}
                ELSE outbox[i].payload = "OFF" /\ StatePublishedBefore(i))
    /\ [][(main_pc = "check_status" /\ main_pc' # main_pc /\ status = <<>>)
             => (outbox' = <<[topic |-> "error", payload |-> "ON"]>> /\ main_pc' = "top")]_vars
    /\ [][(main_pc = "publish_state" /\ main_pc' = "check_force")
             => outbox'[Len(outbox')] = [topic |-> "error", payload |-> "OFF"]]_vars

\* A successful run with heating on has been published, error=OFF last.
C24_Witness ==
    /\ main_pc = "check_force"
    /\ outbox[Len(outbox)] = [topic |-> "error", payload |-> "OFF"]
    /\ outbox[PlaceOf("heating")].payload = "ON"

\* C25: a camera handle is open only between start_webcam and the
\* cap.release() that follows analyze: there never is more than one, and
\* none while main_loop publishes, waits, sleeps or is about to open one.
C25_CameraHeldOnlyDuringAnalysis ==
    cameras_open = (IF main_pc \in {"analyze", "release"} THEN 1 ELSE 0)

\* analyze has returned a status and the handle is released, before the
\* connection check and any publish.
C25_Witness ==
    /\ main_pc = "check_connected"
    /\ status # <<>>
    /\ cameras_open = 0

\* C26 as stated: a run starts while debug mode is enabled only if a force
\* check is pending; otherwise main_loop blocks on the force-check event,
\* and a wake-up that finds no force check pending clears the event and
\* starts no run.
C26_NoRunInDebugModeUnlessForced ==
    [][/\ (main_pc = "open_camera" /\ main_pc' # main_pc /\ debug_mode_enabled)
             => should_publish_force_checked
       /\ (main_pc = "gate" /\ main_pc' # main_pc
              /\ debug_mode_enabled /\ ~should_publish_force_checked)
             => main_pc' = "wait_event"
       /\ (main_pc = "wait_event" /\ main_pc' # main_pc) => force_check_event
       /\ (main_pc = "clear_event" /\ main_pc' # main_pc) => ~force_check_event'
       /\ (main_pc = "check_woken" /\ main_pc' # main_pc
              /\ ~should_publish_force_checked)
             => main_pc' = "top"]_vars

\* C26, amended: main_loop goes on to a run only if, when it tests the gate
\* (line 134, or line 142 after a wake-up), debug mode is off or a force
\* check is pending; debug mode switched on after that test does not stop
\* the run.  Otherwise main_loop blocks on the force-check event, and a
\* wake-up that finds no force check pending clears the event and goes back
\* to the top of the loop without starting a run.
C26_DebugGate ==
    [][/\ (main_pc' = "open_camera" /\ main_pc' # main_pc)
             => /\ main_pc \in {"gate", "check_woken"}
                /\ ~debug_mode_enabled \/ should_publish_force_checked
       /\ (main_pc = "gate" /\ main_pc' # main_pc
              /\ debug_mode_enabled /\ ~should_publish_force_checked)
             => main_pc' = "wait_event"
       /\ (main_pc = "wait_event" /\ main_pc' # main_pc) => force_check_event
       /\ (main_pc = "clear_event" /\ main_pc' # main_pc) => ~force_check_event'
       /\ (main_pc = "check_woken" /\ main_pc' # main_pc
              /\ ~should_publish_force_checked)
             => main_pc' = "top"]_vars

\* main_loop was woken in debug mode with no force check requested, has
\* cleared the event and is about to go back to the top of the loop.
C26_Witness ==
    /\ main_pc = "check_woken"
    /\ ~should_publish_force_checked
    /\ ~unacknowledged
    /\ ~force_check_event
    /\ debug_mode_enabled

\* C27: while the client stays connected, the camera opens and the runs
\* succeed, every force-check request is followed by a publish on the
\* last-force-check topic, and from that publish (once line 210 has run)
\* until the next request should_publish_force_checked is false.
C27_ForceCheckAcknowledged ==
    /\ unacknowledged ~> ~unacknowledged
    /\ [](~unacknowledged /\ main_pc # "reset_force" => ~should_publish_force_checked)

\* C28 as stated: the last-force-check publish follows the state publish of
\* a run that started after the request it acknowledges, so no request has
\* been made since the latest run returned.
C28_AcknowledgedByLaterRun ==
    [][(main_pc = "publish_force" /\ main_pc' = "reset_force")
          => ~requested_since_run]_vars

\* C28, amended: the last-force-check publish follows, in the same
\* iteration of the loop, the publish of the heating, general-light and
\* percentage states of the latest run; that run may have started, and
\* returned, before the request was made.
C28_AcknowledgedAfterStatePublish ==
    \A n \in 1..Len(outbox) :
        outbox[n].topic = "last_force_check" => StatePublishedBefore(n)

\* A request made after analyze returned has been acknowledged with the
\* states of that run.
C28_Witness ==
    /\ main_pc = "reset_force"
    /\ requested_since_run
    /\ "last_force_check" \in Topics

(***************************************************************************)
(* The vote and the order of the frames.                                    *)
(***************************************************************************)
\* The blocks of the run whose frames the detector can count.
CountedBlocks == {i \in 1..Len(args.kinds) : args.kinds[i] # GAP_FRAME}

\* The counts alone tell which two values are the most frequent: no third
\* value occurs as often as the second of them.
TopTwoDetermined ==
    \/ Cardinality(CountedBlocks) <= 2
    \/ \E a, b \in CountedBlocks :
          /\ a # b
          /\ \A c \in CountedBlocks \ {a, b} :
                args.counts[c] < args.counts[a] /\ args.counts[c] < args.counts[b]

\* C29 as stated: whatever the order of the 30 frames, the outcome of the
\* run (None, or heating and lights_on) is the same.
C29_OutcomeIndependentOfOrder ==
    returned # <<>> => returned[1].in_order = returned[1].reordered

\* C29, amended: when the counts determine the two most frequent values,
\* the outcome of the run is the same whatever the order of the frames.
C29_OutcomeIndependentOfOrderUnlessTied ==
    (returned # <<>> /\ TopTwoDetermined)
        => returned[1].in_order = returned[1].reordered

\* Three values with the two most frequent determined, shown in reverse
\* order, and a heating verdict.
C29_Witness ==
    /\ returned # <<>>
    /\ Cardinality(CountedBlocks) = 3
    /\ TopTwoDetermined
    /\ args.order = <<3, 2, 1>>
    /\ returned[1].reordered # <<>>
    /\ returned[1].reordered[1].heating

\* C30: a status analyze returns has lights_on in 0..4, heating only with
\* lights_on >= 1, and never lights_on = 1 without heating; so
\* lights_to_percentage of it neither reaches exit(1) nor yields "25".
C30_ReturnedStatusHasPercentage ==
    Returned =>
        LET lights_on == result[1].lights_on
            heating == result[1].heating
        IN  /\ lights_on \in 0..4
            /\ heating => lights_on >= 1
            /\ ~(lights_on = 1 /\ ~heating)
            /\ lights_to_percentage(lights_on, heating) \notin {EXIT, "25"}

\* A returned status of four lights while heating, published as "88".
C30_Witness ==
    /\ Returned
    /\ result[1].lights_on = 4
    /\ result[1].heating
    /\ lights_to_percentage(result[1].lights_on, result[1].heating) = "88"

(***************************************************************************)
(* C31: a run that gets past the failure gate (it returns a status, or no   *)
(* more than a quarter of its NUMBER_OF_FRAMES frames failed) counted at    *)
(* least 23 light values, so its tally is not empty and the empty top-two   *)
(* branch is not why it returns nothing.                                    *)
(***************************************************************************)
C31_TallyNotEmptyPastGate ==
    (/\ pc = "done"
     /\ frame_index = NUMBER_OF_FRAMES
     /\ (result # <<>> \/ failed_frames * 4 <= NUMBER_OF_FRAMES))
    => /\ Len(determined_light_values) >= 23
       /\ CounterKeys(determined_light_values) # {}
       /\ Len(most_common(determined_light_values, 2)) > 0

\* A run past the gate with as many failed frames as the gate lets through.
C31_Witness ==
    /\ pc = "done"
    /\ frame_index = NUMBER_OF_FRAMES
    /\ failed_frames = 7
    /\ Len(determined_light_values) = 23
    /\ result # <<>>

(***************************************************************************)
(* C32: add_status puts the new status in the history iff the history is    *)
(* empty or the status differs from the newest entry in heating, lights_on  *)
(* or general_light_on; and while no two calls passed the same              *)
(* timestamp_str, any two neighbours in the history differ in one of those  *)
(* three fields.                                                            *)
(***************************************************************************)
FieldsDiffer(a, b) ==
    \/ a.heating # b.heating
    \/ a.lights_on # b.lights_on
    \/ a.general_light_on # b.general_light_on

NeighboursDiffer ==
    \A i \in 1..(Len(history) - 1) :
        FieldsDiffer(history[i].value, history[i + 1].value)

AddedByCall ==
    (clock' # clock) =>
        ((\E i \in 1..Len(history') : history'[i].value = self_last'[1])
            <=> (history = <<>> \/ FieldsDiffer(history[1].value, self_last'[1])))

C32_AddedIffDiffers ==
    /\ [][AddedByCall]_vars
    /\ [](~key_reused => NeighboursDiffer)

\* A full history of distinct keys, after a call that repeated the newest
\* entry's fields and so was not added.
C32_Witness ==
    /\ ~key_reused
    /\ Len(history) = max_size
    /\ Cardinality(keys_passed) > max_size
    /\ self_last # <<>>
    /\ self_last[1] # history[1].value
    /\ ~FieldsDiffer(self_last[1], history[1].value)

(***************************************************************************)
(* C33: the history never holds more than max_size entries, get_history()   *)
(* lists them newest first, and a call that adds an entry under a new key   *)
(* to a full history evicts the oldest entry and no other.                  *)
(***************************************************************************)
HistoryValues(dict) == {dict[i].value : i \in 1..Len(dict)}

ListedNewestFirst ==
    LET listed == get_history(history)
    IN  \A i, j \in 1..Len(listed) :
            i < j => listed[i].timestamp > listed[j].timestamp

OldestOf(entries) ==
    CHOOSE e \in entries : \A f \in entries : e.timestamp <= f.timestamp

EvictsOldest ==
    (/\ clock' # clock
     /\ Len(history) = max_size
     /\ last_timestamp_str'[1] \notin DictKeys(history)
     /\ FieldsDiffer(history[1].value, self_last'[1]))
    => HistoryValues(history') =
           (HistoryValues(history) \ {OldestOf(HistoryValues(history))})
               \cup {self_last'[1]}

C33_BoundedNewestFirst ==
    /\ [](Len(history) <= max_size /\ ListedNewestFirst)
    /\ [][EvictsOldest]_vars

\* A full history that no longer holds the entry of the first call, though
\* no key was passed twice: that entry was evicted.
C33_Witness ==
    /\ ~key_reused
    /\ Len(history) = max_size
    /\ keys_passed # {}
    /\ (CHOOSE k \in keys_passed : \A l \in keys_passed : k <= l) \notin DictKeys(history)

(***************************************************************************)
(* C34: get_by_timestamp, asked for a timestamp string that is neither      *)
(* last_timestamp_str nor a key of the history, returns None and raises     *)
(* nothing.                                                                 *)
(***************************************************************************)
C34_MissingTimestampGivesNone ==
    (lookup # <<>> /\ ~lookup.known)
        => (~lookup.outcome.raised /\ lookup.outcome.value = <<>>)
====
